---- MODULE Spec2Model ----
(***************************************************************************)
(* A model of my-assistant-cli: the gen command's safety gate, its         *)
(* confirmation prompt and its execution sequencer (src/commands/gen.ts),  *)
(* and the bounded JSON history logs of gen, fix and review.               *)
(*                                                                         *)
(* Strings the code inspects (commands, patterns) are sequences of         *)
(* one-character strings, so that toLowerCase() and includes() are         *)
(* computed.  Strings the code only stores (prompts) are TLA+ strings.     *)
(***************************************************************************)
EXTENDS Integers, Sequences, FiniteSets, TLC

VARIABLES
    pc,            \* where the gen run is suspended
    flagHistory,   \* flags.history
    apiKey,        \* process.env.GEMINI_API_KEY is set
    userPrompt,    \* userPrompt of Gen.run / selected.prompt
    planned,       \* a plan (commands) exists
    commands,      \* the plan: result.commands, or <<selected.command>>
    confirmAsked,  \* the execution confirmation prompt has been offered
    confirmDefault,\* its default answer (TRUE = yes)
    confirmAnswer, \* "none", "yes" or "no"
    step,          \* index i of the step being executed (1-based)
    children,      \* steps whose child process is running
    spawned,       \* every command handed to spawn(), in order
    results,       \* the value each executeCommand promise resolved to
    lastCode,      \* exit code of the last 'close' event
    attemptSaves,  \* saveToHistory calls made by the current attempt
    saves,         \* every record handed to saveToHistory by this run
    exitCode,      \* exit status of the run, meaningful when pc = "done"
    aiCalls,       \* calls of model.generateContent
    file,          \* the history file of the store in use
    clock,         \* new Date(): the next timestamp
    store,         \* history store exercised: "gen", "fix" or "review"
    hist,          \* last history-store operation and its observations;
                   \* in a run of a command, .before is the file the run found
    responseText,  \* result.response.text().trim() of gen's AI call
    parsed,        \* what parseAIResponse returned, once it was applied
    retry,         \* the retryWithBackoff call: its locals and what it did
    cmd,           \* the command run: "gen", "fix" or "review"
    flagAuto,      \* flags.auto of fix
    argv,          \* the arguments after the flags
    userFile,      \* the user's target file: its state or content
    backup,        \* the file <path>.backup
    effects,       \* programs run (each with what detectErrors found), user
                   \* files written, prompts answered
    caught,        \* the error a catch block of the command caught
    procs          \* concurrent invocations inside saveToHistory

genVars == <<pc, flagHistory, apiKey, userPrompt, planned, commands, confirmAsked,
             confirmDefault, confirmAnswer, step, children, spawned, results,
             lastCode, attemptSaves, saves, exitCode, aiCalls>>

vars == <<pc, flagHistory, apiKey, userPrompt, planned, commands, confirmAsked,
          confirmDefault, confirmAnswer, step, children, spawned, results,
          lastCode, attemptSaves, saves, exitCode, aiCalls, file, clock, store, hist,
          responseText, parsed, retry, cmd, flagAuto, argv, userFile, backup, effects,
          caught, procs>>

\* the state of gen's parsing step
parseVars == <<responseText, parsed>>

\* the state of fix and review runs
cliVars == <<cmd, flagAuto, argv, userFile, backup, effects, caught>>

(***************************************************************************)
(* Bounds                                                                  *)
(***************************************************************************)
\* longest plan the AI returns
MaxSteps == 3
\* saveToHistory / getHistory calls with arbitrary payload and outcome
MaxAppends == 3
\* longest run of routine appends that fills a log from empty
MaxPrior == 52

(***************************************************************************)
(* Characters and strings                                                  *)
(***************************************************************************)
UpperLetters == <<"A","B","C","D","E","F","G","H","I","J","K","L","M","N","O","P","Q","R","S","T","U","V","W","X","Y","Z">>

LowerLetters == <<"a","b","c","d","e","f","g","h","i","j","k","l","m","n","o","p","q","r","s","t","u","v","w","x","y","z">>

\* String.prototype.toLowerCase on one character
LowerChar(c) ==
    IF \E i \in 1..Len(UpperLetters) : UpperLetters[i] = c
    THEN LowerLetters[CHOOSE i \in 1..Len(UpperLetters) : UpperLetters[i] = c]
    ELSE c

\* String.prototype.toLowerCase
ToLowerCase(s) == [i \in 1..Len(s) |-> LowerChar(s[i])]

\* String.prototype.includes
Includes(s, p) ==
    \E k \in 0..(Len(s) - Len(p)) : \A j \in 1..Len(p) : s[k + j] = p[j]

\* the least and the greatest element of a non-empty set of numbers
Least(S) == CHOOSE i \in S : \A j \in S : i <= j

Greatest(S) == CHOOSE i \in S : \A j \in S : i >= j

\* the white space String.prototype.trim removes
WhiteSpace == {" ", "\t", "\r", "\n"}

\* String.prototype.trim
Trim(s) ==
    LET keep == {i \in 1..Len(s) : s[i] \notin WhiteSpace}
    IN  IF keep = {} THEN <<>> ELSE SubSeq(s, Least(keep), Greatest(keep))

\* String.prototype.startsWith
StartsWith(s, p) == Len(s) >= Len(p) /\ SubSeq(s, 1, Len(p)) = p

\* String.prototype.split for a separator of one character: the pieces
\* between the separators, of which there is one more than separators
Split(s, sep) ==
    LET at == {i \in 1..Len(s) : s[i] = sep}
        n == Cardinality(at)
        pos(k) == IF k = 0 THEN 0
                  ELSE IF k = n + 1 THEN Len(s) + 1
                  ELSE CHOOSE i \in at : Cardinality({j \in at : j < i}) = k - 1
    IN  [k \in 1..(n + 1) |-> SubSeq(s, pos(k - 1) + 1, pos(k) - 1)]

\* Array.prototype.slice(from), from counting from 0
Slice(a, from) == SubSeq(a, from + 1, Len(a))

\* Array.prototype.join
RECURSIVE Join(_, _)
Join(a, sep) ==
    IF Len(a) = 0 THEN <<>>
    ELSE IF Len(a) = 1 THEN a[1]
    ELSE a[1] \o <<sep>> \o Join(Tail(a), sep)

\* a.map(s => s.trim())
MapTrim(a) == [i \in 1..Len(a) |-> Trim(a[i])]

\* Boolean(s) of a string: it is not empty
Truthy(s) == Len(s) > 0

(***************************************************************************)
(* SafetyChecker                                                           *)
(***************************************************************************)
\* ':(){:|:&};:', '> /dev/sda', 'chmod -R 777 /', 'chown -R', 'dd if=',
\* 'format', 'mkfs', 'rm -rf /', 'rm -rf *'
dangerousCommands ==
    << <<":","(",")","{",":","|",":","&","}",";",":">>,
       <<">"," ","/","d","e","v","/","s","d","a">>,
       <<"c","h","m","o","d"," ","-","R"," ","7","7","7"," ","/">>,
       <<"c","h","o","w","n"," ","-","R">>,
       <<"d","d"," ","i","f","=">>,
       <<"f","o","r","m","a","t">>,
       <<"m","k","f","s">>,
       <<"r","m"," ","-","r","f"," ","/">>,
       <<"r","m"," ","-","r","f"," ","*">> >>

\* '> /dev/', 'dd', 'del /f /s /q', 'fdisk', 'format', 'mkfs', 'rm -rf'
destructiveKeywords ==
    << <<">"," ","/","d","e","v","/">>,
       <<"d","d">>,
       <<"d","e","l"," ","/","f"," ","/","s"," ","/","q">>,
       <<"f","d","i","s","k">>,
       <<"f","o","r","m","a","t">>,
       <<"m","k","f","s">>,
       <<"r","m"," ","-","r","f">> >>

\* a blacklist check that forgets to lower-case the command
IsBlacklistedCaseSensitive(command) ==
    \E d \in 1..Len(dangerousCommands) : Includes(command, dangerousCommands[d])

\* a blacklist check that also vetoes the destructive keywords
IsBlacklistedOrDestructive(command) ==
    \/ \E d \in 1..Len(dangerousCommands) :
          Includes(ToLowerCase(command), ToLowerCase(dangerousCommands[d]))
    \/ \E d \in 1..Len(destructiveKeywords) :
          Includes(ToLowerCase(command), ToLowerCase(destructiveKeywords[d]))

IsBlacklisted(command) ==
    \E d \in 1..Len(dangerousCommands) :
        Includes(ToLowerCase(command), ToLowerCase(dangerousCommands[d]))

IsDestructive(command) ==
    \E d \in 1..Len(destructiveKeywords) :
        Includes(ToLowerCase(command), ToLowerCase(destructiveKeywords[d]))

(***************************************************************************)
(* History stores: CommandManager, HistoryManager, ReviewHistoryManager    *)
(***************************************************************************)
\* "Simpan maksimal 50 history"
MaxHistory == 50

\* The history file: absent; present but readFileSync throws ("unreadable");
\* readable but JSON.parse throws ("invalid"); valid JSON holding an array
\* ("array", its elements in items); valid JSON holding another value
\* ("nonarray").
AbsentFile == [kind |-> "absent", items |-> <<>>]

UnreadableFile == [kind |-> "unreadable", items |-> <<>>]

InvalidFile == [kind |-> "invalid", items |-> <<>>]

NonArrayFile == [kind |-> "nonarray", items |-> <<>>]

ArrayFile(items) == [kind |-> "array", items |-> items]

\* the { command, prompt, success, timestamp } literal of CommandManager.saveToHistory
CommandHistory(command, prompt, success, timestamp) ==
    [command |-> command, prompt |-> prompt, success |-> success, timestamp |-> timestamp]

\* the record literal of HistoryManager.saveToHistory
FixHistory(filePath, errorMessage, success, fixType, timestamp) ==
    [errorMessage |-> errorMessage, filePath |-> filePath, fixType |-> fixType,
     success |-> success, timestamp |-> timestamp]

\* the record literal of ReviewHistoryManager.saveToHistory
ReviewHistory(filePath, fileType, issuesFound, success, timestamp) ==
    [filePath |-> filePath, fileType |-> fileType, issuesFound |-> issuesFound,
     success |-> success, timestamp |-> timestamp]

\* Array.prototype.unshift
Unshift(history, record) == <<record>> \o history

\* Array.prototype.splice(start): drops the elements from index start on
Splice(history, start) ==
    IF Len(history) > start THEN SubSeq(history, 1, start) ELSE history

\* a getHistory that lets the read or parse failure escape
GetHistoryRaising(f) ==
    IF f.kind = "absent"
    THEN [isArray |-> TRUE, items |-> <<>>, warned |-> FALSE, raised |-> FALSE]
    ELSE IF f.kind \in {"unreadable", "invalid"}
    THEN [isArray |-> TRUE, items |-> <<>>, warned |-> FALSE, raised |-> TRUE]
    ELSE [isArray |-> f.kind = "array", items |-> f.items, warned |-> FALSE, raised |-> FALSE]

\* CommandManager.getHistory: what it returns, and whether it warned or raised
GetHistory(f) ==
    IF f.kind = "absent"
    THEN [isArray |-> TRUE, items |-> <<>>, warned |-> FALSE, raised |-> FALSE]
    ELSE IF f.kind \in {"unreadable", "invalid"}
    THEN [isArray |-> TRUE, items |-> <<>>, warned |-> TRUE, raised |-> FALSE]
    ELSE [isArray |-> f.kind = "array", items |-> f.items, warned |-> FALSE, raised |-> FALSE]

\* HistoryManager.getHistory
FixGetHistory(f) ==
    IF f.kind = "absent"
    THEN [isArray |-> TRUE, items |-> <<>>, warned |-> FALSE, raised |-> FALSE]
    ELSE IF f.kind \in {"unreadable", "invalid"}
    THEN [isArray |-> TRUE, items |-> <<>>, warned |-> TRUE, raised |-> FALSE]
    ELSE [isArray |-> f.kind = "array", items |-> f.items, warned |-> FALSE, raised |-> FALSE]

\* ReviewHistoryManager.getHistory
ReviewGetHistory(f) ==
    IF f.kind = "absent"
    THEN [isArray |-> TRUE, items |-> <<>>, warned |-> FALSE, raised |-> FALSE]
    ELSE IF f.kind \in {"unreadable", "invalid"}
    THEN [isArray |-> TRUE, items |-> <<>>, warned |-> TRUE, raised |-> FALSE]
    ELSE [isArray |-> f.kind = "array", items |-> f.items, warned |-> FALSE, raised |-> FALSE]

\* a read-modify-write that never truncates
WriteBackUntruncated(f, history, record, writeOk) ==
    IF ~history.isArray
    THEN [file |-> f, threw |-> TRUE, warned |-> history.warned]
    ELSE [file |-> IF writeOk THEN ArrayFile(Unshift(history.items, record)) ELSE f,
          threw |-> FALSE,
          warned |-> history.warned \/ ~writeOk]

\* the read-modify-write shared by the three saveToHistory methods, given the
\* value getHistory returned: unshift, splice(50), writeFileSync.  unshift on
\* a value that is not an array throws a TypeError outside any try block.
WriteBack(f, history, record, writeOk) ==
    IF ~history.isArray
    THEN [file |-> f, threw |-> TRUE, warned |-> history.warned]
    ELSE LET unshifted == Unshift(history.items, record)
             kept == IF Len(unshifted) > MaxHistory
                     THEN Splice(unshifted, MaxHistory)
                     ELSE unshifted
         IN  [file |-> IF writeOk THEN ArrayFile(kept) ELSE f,
              threw |-> FALSE,
              warned |-> history.warned \/ ~writeOk]

\* a saveToHistory that appends instead of prepending
SaveToHistoryAppending(f, record, writeOk) ==
    LET history == GetHistory(f)
        pushed == history.items \o <<record>>
        kept == IF Len(pushed) > MaxHistory THEN Splice(pushed, MaxHistory) ELSE pushed
    IN  IF ~history.isArray
        THEN [file |-> f, threw |-> TRUE, warned |-> history.warned]
        ELSE [file |-> IF writeOk THEN ArrayFile(kept) ELSE f,
              threw |-> FALSE, warned |-> history.warned \/ ~writeOk]

\* a saveToHistory that truncates one element too late
SaveToHistoryOffByOne(f, record, writeOk) ==
    LET history == GetHistory(f)
        unshifted == Unshift(history.items, record)
        kept == IF Len(unshifted) > MaxHistory + 1
                THEN Splice(unshifted, MaxHistory + 1)
                ELSE unshifted
    IN  IF ~history.isArray
        THEN [file |-> f, threw |-> TRUE, warned |-> history.warned]
        ELSE [file |-> IF writeOk THEN ArrayFile(kept) ELSE f,
              threw |-> FALSE, warned |-> history.warned \/ ~writeOk]

\* a saveToHistory that leaves a file it could not read as it is
SaveToHistoryKeepingUnread(f, record, writeOk) ==
    IF GetHistory(f).warned
    THEN [file |-> f, threw |-> FALSE, warned |-> TRUE]
    ELSE WriteBack(f, GetHistory(f), record, writeOk)

\* CommandManager.saveToHistory
SaveToHistory(f, record, writeOk) == WriteBack(f, GetHistory(f), record, writeOk)

\* HistoryManager.saveToHistory
FixSaveToHistory(f, record, writeOk) == WriteBack(f, FixGetHistory(f), record, writeOk)

\* ReviewHistoryManager.saveToHistory
ReviewSaveToHistory(f, record, writeOk) == WriteBack(f, ReviewGetHistory(f), record, writeOk)

(***************************************************************************)
(* Inputs of a gen run                                                     *)
(***************************************************************************)
\* "ls": neither blacklisted nor destructive
CmdLs == <<"l","s">>

\* "rm -rf x": destructive, not blacklisted
CmdRmDir == <<"r","m"," ","-","r","f"," ","x">>

\* "RM -RF /": blacklisted (and destructive) in upper case
CmdRmRoot == <<"R","M"," ","-","R","F"," ","/">>

\* "chown -R a": blacklisted, not destructive
CmdChown == <<"c","h","o","w","n"," ","-","R"," ","a">>

\* "ADD": destructive only through the substring "dd"
CmdAdd == <<"A","D","D">>

SampleCommands == {CmdLs, CmdRmDir, CmdRmRoot, CmdChown, CmdAdd}

\* the plans parseAIResponse may hand to Gen.run
Plans == UNION {[1..n -> SampleCommands] : n \in 0..MaxSteps}

\* argv joined by ' ' ("" when no argument was given)
ArgvPrompts == {"", "hapus folder x"}

\* what the user types at 'Apa yang ingin Anda lakukan?'
TypedPrompts == {"", "daftar file"}

\* a record left in history.json by an earlier run
OldRecord(command) == CommandHistory(command, "lama", TRUE, 0)

\* history.json when a gen run starts.  A file holding JSON that is not an
\* array is exercised by the history-store specification only.
GenInitialFiles ==
    {AbsentFile, InvalidFile, ArrayFile(<<>>)}
    \cup {ArrayFile(<<OldRecord(c)>>) : c \in SampleCommands}
    \cup {ArrayFile(<<OldRecord(CmdLs), OldRecord(CmdRmRoot)>>)}

\* the code argument of the 'close' event: a number, or null after a signal
CloseCodes == {"0", "1", "null"}

\* the code 'close' reports after a failed spawn: the negative errno
SpawnErrnoCodes == {"-2"}

\* no history-store operation observed yet
Idle == [op |-> "none", before |-> AbsentFile, ret |-> <<>>, retIsArray |-> TRUE,
         raised |-> FALSE, wrote |-> FALSE, record |-> <<>>,
         appends |-> 0, failures |-> 0, fromEmpty |-> FALSE, calls |-> 0]

(***************************************************************************)
(* parseAIResponse (gen.ts)                                                *)
(***************************************************************************)
\* 'MULTI_STEP'
MultiStepMarker == <<"M","U","L","T","I","_","S","T","E","P">>

\* 'STEP'
StepMarker == <<"S","T","E","P">>

\* 'COMMAND:'
CommandMarker == <<"C","O","M","M","A","N","D",":">>

\* 'SUGGESTIONS:'
SuggestionsMarker == <<"S","U","G","G","E","S","T","I","O","N","S",":">>

\* 'ERROR:'
ErrorMarker == <<"E","R","R","O","R",":">>

\* line.split(':').slice(1).join(':').trim()
CommandOf(line) == Trim(Join(Slice(Split(line, ":"), 1), ":"))

\* line.split(':')[1].trim().split('|').map(s => s.trim())
SuggestionsOf(line) == MapTrim(Split(Trim(Split(line, ":")[2]), "|"))

\* one of the two `for (const line of lines)` loops, marker being 'STEP' in
\* the first and 'COMMAND:' in the second: acc holds commands and suggestions
RECURSIVE ScanLines(_, _, _)
ScanLines(lines, marker, acc) ==
    IF Len(lines) = 0
    THEN acc
    ELSE LET line == Head(lines)
             next == IF StartsWith(line, marker)
                     THEN [acc EXCEPT !.commands = Append(acc.commands, CommandOf(line))]
                     ELSE IF StartsWith(line, SuggestionsMarker)
                     THEN [acc EXCEPT !.suggestions = SuggestionsOf(line)]
                     ELSE acc
         IN  ScanLines(Tail(lines), marker, next)

\* parseAIResponse(response)
ParseAIResponse(response) ==
    LET lines == SelectSeq(MapTrim(Split(response, "\n")), Truthy)
        marker == IF Includes(response, MultiStepMarker) THEN StepMarker ELSE CommandMarker
    IN  ScanLines(lines, marker, [commands |-> <<>>, suggestions |-> <<>>])

\* the digits that number the STEP lines
Digits == <<"1","2","3","4","5","6","7","8","9">>

\* 'STEPi: <command>'
StepLine(i, command) == StepMarker \o <<Digits[i], ":", " ">> \o command

\* 'COMMAND: <command>'
CommandLine(command) == CommandMarker \o <<" ">> \o command

\* the response that asks for the commands of plan in the format the system
\* prompt lays down: a COMMAND line for one command, MULTI_STEP and STEP
\* lines for several, no marker at all for none
ResponseOfPlan(plan) ==
    IF Len(plan) = 0 THEN <<"m","a","a","f">>
    ELSE IF Len(plan) = 1 THEN CommandLine(plan[1])
    ELSE Join(<<MultiStepMarker>> \o [i \in 1..Len(plan) |-> StepLine(i, plan[i])], "\n")

\* 'ERROR: bukan perintah', as model.generateContent returns it: the AI
\* declines, here with white space around its text
RefusalResponse == <<" ">> \o ErrorMarker \o <<" ","b","u","k","a","n"," ","p","e","r","i","n","t","a","h">> \o <<"\n">>

\* a command that mentions the marker without beginning with it
MentionsErrorResponse == CommandLine(<<"e","c","h","o"," ","E","R","R","O","R",":">>)

\* a one-step plan in the multi-step format
OneStepResponse == Join(<<MultiStepMarker, StepLine(1, CmdLs)>>, "\n")

\* a command with suggestions
SuggestingResponse == Join(<<CommandLine(CmdLs), <<"S","U","G","G","E","S","T","I","O","N","S",":"," ","a"," ","|"," ","b"," ","|"," ","c">>>>, "\n")

\* result.response.text() of gen's AI call
GenResponses ==
    {ResponseOfPlan(plan) : plan \in Plans}
    \cup {RefusalResponse, MentionsErrorResponse, OneStepResponse, SuggestingResponse}

\* the errors model.generateContent rejects with
AiErrors == {"e1", "e2"}

\* parseAIResponse has not been applied
NotParsed == [applied |-> FALSE, commands |-> <<>>, suggestions |-> <<>>]

\* no retryWithBackoff call is under way
RetryIdle == [pc |-> "off", maxRetries |-> 0, baseDelay |-> 0, attempt |-> 0,
              lastError |-> "undefined", value |-> "none", raised |-> "none",
              log |-> <<>>]

(***************************************************************************)
(* Gen.run                                                                 *)
(***************************************************************************)
\* this.exit(code), or run() returning (code 0)
Exit(code) ==
    /\ pc' = "done"
    /\ exitCode' = code

\* a confirmation that ignores the user's answer
AnsweredYesAlways(answer) == TRUE

\* the value confirm() resolves to for the user's answer
AnsweredYes(answer) == answer = "yes"

\* a success test that takes a missing exit code for a failure
CloseSuccessZeroOnly(code) == code = "0"

\* const success = code === 0 || code === null
CloseSuccess(code) == code = "0" \/ code = "null"

\* spawn(command, [], ...) for step i of the plan
SpawnChild(i) ==
    /\ children' = children \cup {i}
    /\ spawned' = Append(spawned, commands[i])
    /\ step' = i
    /\ attemptSaves' = 0
    /\ pc' = "running"

\* executeSingleCommand up to its await confirm(...)
ExecuteSingleCommand(command) ==
    IF IsBlacklisted(command)
    THEN /\ Exit(1)
         /\ UNCHANGED <<confirmAsked, confirmDefault>>
    ELSE /\ confirmAsked' = TRUE
         /\ confirmDefault' = ~IsDestructive(command)
         /\ pc' = "confirmSingle"
         /\ UNCHANGED exitCode

\* an executeMultipleCommands whose default looks at the first step only
ExecuteMultipleCommandsFirstOnly(cmds) ==
    IF \E i \in 1..Len(cmds) : IsBlacklisted(cmds[i])
    THEN /\ Exit(1)
         /\ UNCHANGED <<confirmAsked, confirmDefault>>
    ELSE /\ confirmAsked' = TRUE
         /\ confirmDefault' = ~(Len(cmds) > 0 /\ IsDestructive(cmds[1]))
         /\ pc' = "confirmMulti"
         /\ UNCHANGED exitCode

\* executeMultipleCommands up to its await confirm(...)
ExecuteMultipleCommands(cmds) ==
    IF \E i \in 1..Len(cmds) : IsBlacklisted(cmds[i])
    THEN /\ Exit(1)
         /\ UNCHANGED <<confirmAsked, confirmDefault>>
    ELSE /\ confirmAsked' = TRUE
         /\ confirmDefault' = ~(\E i \in 1..Len(cmds) : IsDestructive(cmds[i]))
         /\ pc' = "confirmMulti"
         /\ UNCHANGED exitCode

\* Gen.run from its start to its first suspension: --history listing, the
\* API key check, the prompt taken from argv
RunStart ==
    /\ pc = "start"
    /\ IF flagHistory
       THEN /\ IF Len(GetHistory(file).items) = 0
               THEN Exit(0)
               ELSE pc' = "askRerun" /\ UNCHANGED exitCode
            /\ UNCHANGED aiCalls
       ELSE IF ~apiKey
       THEN Exit(1) /\ UNCHANGED aiCalls
       ELSE IF userPrompt = ""
       THEN pc' = "askPrompt" /\ UNCHANGED <<exitCode, aiCalls>>
       ELSE pc' = "generate" /\ aiCalls' = aiCalls + 1 /\ UNCHANGED exitCode
    /\ UNCHANGED <<flagHistory, apiKey, userPrompt, planned, commands, confirmAsked,
                   confirmDefault, confirmAnswer, step, children, spawned, results,
                   lastCode, attemptSaves, saves, file, clock, store, hist>>
    /\ UNCHANGED <<procs, parseVars, retry, cliVars>>

\* an input step that takes an empty answer for a prompt
InputPromptUnchecked(typed) ==
    /\ pc = "askPrompt"
    /\ userPrompt' = typed
    /\ pc' = "generate"
    /\ aiCalls' = aiCalls + 1
    /\ UNCHANGED <<flagHistory, apiKey, planned, commands, confirmAsked,
                   confirmDefault, confirmAnswer, step, children, spawned, results,
                   lastCode, attemptSaves, saves, exitCode, file, clock, store, hist>>
    /\ UNCHANGED <<procs, parseVars, retry, cliVars>>

\* the answer to input({message: 'Apa yang ingin Anda lakukan?'})
InputPrompt(typed) ==
    /\ pc = "askPrompt"
    /\ IF typed = ""
       THEN Exit(1) /\ UNCHANGED <<userPrompt, aiCalls>>
       ELSE /\ userPrompt' = typed
            /\ pc' = "generate"
            /\ aiCalls' = aiCalls + 1
            /\ UNCHANGED exitCode
    /\ UNCHANGED <<flagHistory, apiKey, planned, commands, confirmAsked,
                   confirmDefault, confirmAnswer, step, children, spawned, results,
                   lastCode, attemptSaves, saves, file, clock, store, hist>>
    /\ UNCHANGED <<procs, parseVars, retry, cliVars>>

\* generateCommand's try block throws error (model.generateContent rejects,
\* or response.text() throws): the catch returns null and run() does
\* this.exit(1)
GenerateFails(error) ==
    /\ pc = "generate"
    /\ caught' = error
    /\ Exit(1)
    /\ UNCHANGED <<flagHistory, apiKey, userPrompt, planned, commands, confirmAsked,
                   confirmDefault, confirmAnswer, step, children, spawned, results,
                   lastCode, attemptSaves, saves, aiCalls, file, clock, store, hist>>
    /\ UNCHANGED <<procs, parseVars, retry, cmd, flagAuto, argv, userFile, backup, effects>>

\* a generateCommand that parses whatever the AI answered
RefusedNever(text) == FALSE

\* responseText.startsWith('ERROR:')
Refused(text) == StartsWith(text, ErrorMarker)

\* model.generateContent resolves with response.  generateCommand trims the
\* text; on 'ERROR:' it returns null and run() does this.exit(1); else it
\* returns parseAIResponse(responseText) and run() goes on, without
\* suspending, into executeSingleCommand or executeMultipleCommands up to the
\* confirm prompt
GenerateCommand(response) ==
    /\ pc = "generate"
    /\ responseText' = Trim(response)
    /\ IF Refused(Trim(response))
       THEN /\ Exit(1)
            /\ UNCHANGED <<parsed, planned, commands, confirmAsked, confirmDefault>>
       ELSE LET result == ParseAIResponse(Trim(response))
            IN  /\ parsed' = [applied |-> TRUE, commands |-> result.commands,
                              suggestions |-> result.suggestions]
                /\ planned' = TRUE
                /\ commands' = result.commands
                /\ IF Len(result.commands) = 1
                   THEN ExecuteSingleCommand(result.commands[1])
                   ELSE ExecuteMultipleCommands(result.commands)
    /\ UNCHANGED <<flagHistory, apiKey, userPrompt, confirmAnswer, step, children,
                   spawned, results, lastCode, attemptSaves, saves, aiCalls,
                   file, clock, store, hist>>
    /\ UNCHANGED <<retry, cliVars, procs>>

\* showHistory: the answer to 'Ingin menjalankan ulang salah satu command?'
AnswerRerun(runAgain) ==
    /\ pc = "askRerun"
    /\ IF runAgain
       THEN pc' = "askChoice" /\ UNCHANGED exitCode
       ELSE Exit(0)
    /\ UNCHANGED <<flagHistory, apiKey, userPrompt, planned, commands, confirmAsked,
                   confirmDefault, confirmAnswer, step, children, spawned, results,
                   lastCode, attemptSaves, saves, aiCalls, file, clock, store, hist>>
    /\ UNCHANGED <<procs, parseVars, retry, cliVars>>

\* history.slice(0, 10)
Recent(history) == SubSeq(history, 1, IF Len(history) < 10 THEN Len(history) ELSE 10)

\* showHistory: a validated answer to 'Pilih nomor (1-10):', then
\* executeSingleCommand(selected.command, selected.prompt) up to its prompt
ChooseNumber(choice) ==
    /\ pc = "askChoice"
    /\ LET recent == Recent(GetHistory(file).items)
       IN  /\ choice \in 1..Len(recent)
           /\ planned' = TRUE
           /\ commands' = <<recent[choice].command>>
           /\ userPrompt' = recent[choice].prompt
           /\ ExecuteSingleCommand(recent[choice].command)
    /\ UNCHANGED <<flagHistory, apiKey, confirmAnswer, step, children, spawned,
                   results, lastCode, attemptSaves, saves, aiCalls, file, clock,
                   store, hist>>
    /\ UNCHANGED <<procs, parseVars, retry, cliVars>>

\* executeSingleCommand after confirm(): cancel, or executeCommand's spawn
ConfirmSingle(answer) ==
    /\ pc = "confirmSingle"
    /\ confirmAnswer' = answer
    /\ IF ~AnsweredYes(answer)
       THEN /\ Exit(0)
            /\ UNCHANGED <<children, spawned, step, attemptSaves>>
       ELSE /\ SpawnChild(1)
            /\ UNCHANGED exitCode
    /\ UNCHANGED <<flagHistory, apiKey, userPrompt, planned, commands, confirmAsked,
                   confirmDefault, results, lastCode, saves, aiCalls, file, clock,
                   store, hist>>
    /\ UNCHANGED <<procs, parseVars, retry, cliVars>>

\* an executeMultipleCommands that fails on a plan without steps
ConfirmMultiFailingEmpty(answer) ==
    /\ pc = "confirmMulti"
    /\ confirmAnswer' = answer
    /\ IF ~AnsweredYes(answer)
       THEN /\ Exit(0)
            /\ UNCHANGED <<children, spawned, step, attemptSaves>>
       ELSE IF Len(commands) = 0
       THEN /\ Exit(1)
            /\ UNCHANGED <<children, spawned, step, attemptSaves>>
       ELSE /\ SpawnChild(1)
            /\ UNCHANGED exitCode
    /\ UNCHANGED <<flagHistory, apiKey, userPrompt, planned, commands, confirmAsked,
                   confirmDefault, results, lastCode, saves, aiCalls, file, clock,
                   store, hist>>
    /\ UNCHANGED <<procs, parseVars, retry, cliVars>>

\* executeMultipleCommands after confirm(): cancel, or the first iteration of
\* the loop (an empty plan falls through the loop and run() returns)
ConfirmMulti(answer) ==
    /\ pc = "confirmMulti"
    /\ confirmAnswer' = answer
    /\ IF ~AnsweredYes(answer)
       THEN /\ Exit(0)
            /\ UNCHANGED <<children, spawned, step, attemptSaves>>
       ELSE IF Len(commands) = 0
       THEN /\ Exit(0)
            /\ UNCHANGED <<children, spawned, step, attemptSaves>>
       ELSE /\ SpawnChild(1)
            /\ UNCHANGED exitCode
    /\ UNCHANGED <<flagHistory, apiKey, userPrompt, planned, commands, confirmAsked,
                   confirmDefault, results, lastCode, saves, aiCalls, file, clock,
                   store, hist>>
    /\ UNCHANGED <<procs, parseVars, retry, cliVars>>

\* this.manager.saveToHistory(command, userPrompt, success) in a child handler
HandlerSave(success, writeOk) ==
    LET record == CommandHistory(commands[step], userPrompt, success, clock)
    IN  /\ file' = SaveToHistory(file, record, writeOk).file
        /\ clock' = clock + 1
        /\ saves' = Append(saves, record)
        /\ attemptSaves' = attemptSaves + 1

\* child.on('close', code) of a child that started
ChildClose(code, writeOk) ==
    /\ pc = "running"
    /\ lastCode' = code
    /\ HandlerSave(CloseSuccess(code), writeOk)
    /\ results' = Append(results, CloseSuccess(code))
    /\ children' = children \ {step}
    /\ pc' = "resolved"
    /\ UNCHANGED <<flagHistory, apiKey, userPrompt, planned, commands, confirmAsked,
                   confirmDefault, confirmAnswer, step, spawned, exitCode, aiCalls,
                   store, hist>>
    /\ UNCHANGED <<procs, parseVars, retry, cliVars>>

\* child.on('error'): the child could not be started.  Node may or may not
\* emit 'close' after it; when it does, it does so before the awaiting caller
\* resumes.
ChildError(closeFollows, writeOk) ==
    /\ pc = "running"
    /\ HandlerSave(FALSE, writeOk)
    /\ results' = Append(results, FALSE)
    /\ children' = IF closeFollows THEN children ELSE children \ {step}
    /\ pc' = IF closeFollows THEN "errored" ELSE "resolved"
    /\ UNCHANGED <<flagHistory, apiKey, userPrompt, planned, commands, confirmAsked,
                   confirmDefault, confirmAnswer, step, spawned, lastCode, exitCode,
                   aiCalls, store, hist>>
    /\ UNCHANGED <<procs, parseVars, retry, cliVars>>

\* child.on('close', code) after 'error': the handler saves again; its
\* resolve() is ignored, the promise being settled already
ChildCloseAfterError(code, writeOk) ==
    /\ pc = "errored"
    /\ lastCode' = code
    /\ HandlerSave(CloseSuccess(code), writeOk)
    /\ children' = children \ {step}
    /\ pc' = "resolved"
    /\ UNCHANGED <<flagHistory, apiKey, userPrompt, planned, commands, confirmAsked,
                   confirmDefault, confirmAnswer, step, spawned, results, exitCode,
                   aiCalls, store, hist>>
    /\ UNCHANGED <<procs, parseVars, retry, cliVars>>

\* a loop that goes on to the next step whatever the last one returned
ResumeKeepGoing ==
    /\ pc = "resolved"
    /\ IF Len(commands) = 1
       THEN /\ Exit(0)
            /\ UNCHANGED <<children, spawned, step, attemptSaves>>
       ELSE IF step < Len(commands)
       THEN /\ SpawnChild(step + 1)
            /\ UNCHANGED exitCode
       ELSE /\ Exit(0)
            /\ UNCHANGED <<children, spawned, step, attemptSaves>>
    /\ UNCHANGED <<flagHistory, apiKey, userPrompt, planned, commands, confirmAsked,
                   confirmDefault, confirmAnswer, results, lastCode, saves, aiCalls,
                   file, clock, store, hist>>
    /\ UNCHANGED <<procs, parseVars, retry, cliVars>>

\* the caller of executeCommand resumes with the promise's value:
\* executeSingleCommand returns; executeMultipleCommands exits on a failure,
\* spawns the next step, or returns after the last one
Resume ==
    /\ pc = "resolved"
    /\ IF Len(commands) = 1
       THEN /\ Exit(0)
            /\ UNCHANGED <<children, spawned, step, attemptSaves>>
       ELSE IF ~results[Len(results)]
       THEN /\ Exit(1)
            /\ UNCHANGED <<children, spawned, step, attemptSaves>>
       ELSE IF step < Len(commands)
       THEN /\ SpawnChild(step + 1)
            /\ UNCHANGED exitCode
       ELSE /\ Exit(0)
            /\ UNCHANGED <<children, spawned, step, attemptSaves>>
    /\ UNCHANGED <<flagHistory, apiKey, userPrompt, planned, commands, confirmAsked,
                   confirmDefault, confirmAnswer, results, lastCode, saves, aiCalls,
                   file, clock, store, hist>>
    /\ UNCHANGED <<procs, parseVars, retry, cliVars>>

Init ==
    /\ pc = "start"
    /\ flagHistory \in BOOLEAN
    /\ apiKey \in BOOLEAN
    /\ userPrompt \in ArgvPrompts
    /\ planned = FALSE
    /\ commands = <<>>
    /\ confirmAsked = FALSE
    /\ confirmDefault = TRUE
    /\ confirmAnswer = "none"
    /\ step = 0
    /\ children = {}
    /\ spawned = <<>>
    /\ results = <<>>
    /\ lastCode = "none"
    /\ attemptSaves = 0
    /\ saves = <<>>
    /\ exitCode = 0
    /\ aiCalls = 0
    /\ file \in GenInitialFiles
    /\ clock = 1
    /\ store = "gen"
    /\ hist = [Idle EXCEPT !.before = file]
    /\ responseText = <<>>
    /\ parsed = NotParsed
    /\ retry = RetryIdle
    /\ cmd = "gen"
    /\ flagAuto = FALSE
    /\ argv = "none"
    /\ userFile = "absent"
    /\ backup = "absent"
    /\ effects = <<>>
    /\ caught = "none"
    /\ procs = <<>>

Next ==
    \/ RunStart
    \/ \E typed \in TypedPrompts : InputPrompt(typed)
    \/ \E error \in AiErrors : GenerateFails(error)
    \/ \E response \in GenResponses : GenerateCommand(response)
    \/ \E runAgain \in BOOLEAN : AnswerRerun(runAgain)
    \/ \E choice \in 1..10 : ChooseNumber(choice)
    \/ \E answer \in {"yes", "no"} : ConfirmSingle(answer)
    \/ \E answer \in {"yes", "no"} : ConfirmMulti(answer)
    \/ \E code \in CloseCodes, writeOk \in BOOLEAN : ChildClose(code, writeOk)
    \/ \E closeFollows \in BOOLEAN, writeOk \in BOOLEAN : ChildError(closeFollows, writeOk)
    \/ \E code \in SpawnErrnoCodes, writeOk \in BOOLEAN : ChildCloseAfterError(code, writeOk)
    \/ Resume

Spec == Init /\ [][Next]_vars

(***************************************************************************)
(* The history stores on their own: one manager (gen, fix or review) and   *)
(* its file, under saveToHistory and getHistory calls.                     *)
(***************************************************************************)
Stores == {"gen", "fix", "review"}

\* the record a caller of the store's saveToHistory has it build
StoreRecord(s, success, timestamp) ==
    CASE s = "gen" -> CommandHistory(CmdLs, "daftar file", success, timestamp)
      [] s = "fix" -> FixHistory("src/app.ts", "TypeError", success, "manual", timestamp)
      [] s = "review" -> ReviewHistory("index.html", "html", 2, success, timestamp)

\* saveToHistory of the store's manager
StoreSave(s, f, record, writeOk) ==
    CASE s = "gen" -> SaveToHistory(f, record, writeOk)
      [] s = "fix" -> FixSaveToHistory(f, record, writeOk)
      [] s = "review" -> ReviewSaveToHistory(f, record, writeOk)

\* getHistory of the store's manager
StoreGet(s, f) ==
    CASE s = "gen" -> GetHistory(f)
      [] s = "fix" -> FixGetHistory(f)
      [] s = "review" -> ReviewGetHistory(f)

\* an array of n records that saveToHistory did not write (an edited file)
Foreign(s, n) == ArrayFile([i \in 1..n |-> StoreRecord(s, i % 2 = 0, n - i)])

\* files a store may find that are not the result of its own appends
OtherFiles(s) ==
    {UnreadableFile, InvalidFile, NonArrayFile,
     Foreign(s, 1), Foreign(s, MaxHistory + 1), Foreign(s, MaxHistory + 2)}

HistInit ==
    /\ pc = "off"
    /\ flagHistory = FALSE
    /\ apiKey = FALSE
    /\ userPrompt = ""
    /\ planned = FALSE
    /\ commands = <<>>
    /\ confirmAsked = FALSE
    /\ confirmDefault = TRUE
    /\ confirmAnswer = "none"
    /\ step = 0
    /\ children = {}
    /\ spawned = <<>>
    /\ results = <<>>
    /\ lastCode = "none"
    /\ attemptSaves = 0
    /\ saves = <<>>
    /\ exitCode = 0
    /\ responseText = <<>>
    /\ parsed = NotParsed
    /\ retry = RetryIdle
    /\ cmd = "none"
    /\ flagAuto = FALSE
    /\ argv = "none"
    /\ userFile = "absent"
    /\ backup = "absent"
    /\ effects = <<>>
    /\ caught = "none"
    /\ procs = <<>>
    /\ aiCalls = 0
    /\ store \in Stores
    /\ \/ /\ file \in {AbsentFile, ArrayFile(<<>>)}
          /\ clock = 1
          /\ hist = [Idle EXCEPT !.fromEmpty = TRUE]
       \/ /\ file \in OtherFiles(store)
          /\ clock = MaxHistory + 3
          /\ hist = Idle

\* a routine saveToHistory call on a log that started empty: the payload
\* alternates with the timestamp and the write succeeds.  The long runs that
\* fill a log up to and past its cap are made of these calls; the calls with
\* arbitrary payload and outcome (HistSave, HistGet) follow them.
HistSaveRoutine ==
    /\ pc = "off"
    /\ hist.fromEmpty
    /\ hist.calls = 0
    /\ hist.appends < MaxPrior
    /\ LET record == StoreRecord(store, clock % 2 = 0, clock)
           r == StoreSave(store, file, record, TRUE)
       IN  /\ file' = r.file
           /\ hist' = [hist EXCEPT !.op = "save", !.before = file, !.ret = <<>>,
                                    !.retIsArray = TRUE, !.raised = r.threw,
                                    !.wrote = ~r.threw, !.record = record,
                                    !.appends = hist.appends + 1,
                                    !.failures = hist.failures + (IF r.threw THEN 1 ELSE 0)]
    /\ clock' = clock + 1
    /\ UNCHANGED <<genVars, store>>
    /\ UNCHANGED <<procs, parseVars, retry, cliVars>>

\* one saveToHistory call
HistSave(success, writeOk) ==
    /\ pc = "off"
    /\ hist.calls < MaxAppends
    /\ LET record == StoreRecord(store, success, clock)
           r == StoreSave(store, file, record, writeOk)
       IN  /\ file' = r.file
           /\ hist' = [op |-> "save", before |-> file, ret |-> <<>>, retIsArray |-> TRUE,
                       raised |-> r.threw, wrote |-> writeOk /\ ~r.threw,
                       record |-> record,
                       appends |-> hist.appends + 1,
                       failures |-> hist.failures + (IF writeOk /\ ~r.threw THEN 0 ELSE 1),
                       fromEmpty |-> hist.fromEmpty,
                       calls |-> hist.calls + 1]
    /\ clock' = clock + 1
    /\ UNCHANGED <<genVars, store>>
    /\ UNCHANGED <<procs, parseVars, retry, cliVars>>

\* one getHistory call
HistGet ==
    /\ pc = "off"
    /\ hist.calls < MaxAppends
    /\ LET r == StoreGet(store, file)
       IN  hist' = [hist EXCEPT !.op = "get", !.before = file, !.ret = r.items,
                                !.retIsArray = r.isArray, !.raised = r.raised,
                                !.wrote = FALSE, !.calls = hist.calls + 1]
    /\ UNCHANGED <<genVars, file, clock, store>>
    /\ UNCHANGED <<procs, parseVars, retry, cliVars>>

HistNext ==
    \/ HistSaveRoutine
    \/ \E success \in BOOLEAN, writeOk \in BOOLEAN : HistSave(success, writeOk)
    \/ HistGet

SpecHist == HistInit /\ [][HistNext]_vars

(***************************************************************************)
(* Initial values shared by the specifications below                       *)
(***************************************************************************)
\* the fields of a gen run (all but its position) before the run has begun
GenVarsIdle ==
    /\ flagHistory = FALSE
    /\ apiKey = FALSE
    /\ userPrompt = ""
    /\ planned = FALSE
    /\ commands = <<>>
    /\ confirmAsked = FALSE
    /\ confirmDefault = TRUE
    /\ confirmAnswer = "none"
    /\ step = 0
    /\ children = {}
    /\ spawned = <<>>
    /\ results = <<>>
    /\ lastCode = "none"
    /\ attemptSaves = 0
    /\ saves = <<>>
    /\ exitCode = 0
    /\ aiCalls = 0

\* no history store in use
HistVarsIdle ==
    /\ file = AbsentFile
    /\ clock = 1
    /\ store = "gen"
    /\ hist = Idle

\* no fix or review run
CliVarsIdle ==
    /\ cmd = "none"
    /\ flagAuto = FALSE
    /\ argv = "none"
    /\ userFile = "absent"
    /\ backup = "absent"
    /\ effects = <<>>
    /\ caught = "none"

(***************************************************************************)
(* retryWithBackoff (fix.ts and review.ts hold the same function)          *)
(***************************************************************************)
\* largest maxRetries a caller passes
MaxRetriesBound == 4

\* maxRetries = 3
DefaultMaxRetries == 3

\* baseDelay = 1000
DefaultBaseDelay == 1000

\* the baseDelay values a caller passes
BaseDelays == {1, DefaultBaseDelay}

\* the values fn() resolves to
RetryValues == {"v1", "v2"}

\* the errors fn() rejects with
RetryErrors == {"e1", "e2"}

\* a back-off that grows linearly
DelayLinear(baseDelay, attempt) == baseDelay * (attempt + 1)

\* const delay = baseDelay * (2 ** attempt)
Delay(baseDelay, attempt) == baseDelay * (2 ^ attempt)

\* one entry of what a retryWithBackoff call did: fn() called ("call"),
\* fn() resolved to what ("resolve") or rejected with what ("reject"),
\* logger.warn announcing a delay of n ("warn"), setTimeout for n ("wait");
\* for a call and its outcome n is the attempt index
Did(ev, n, what) == [ev |-> ev, n |-> n, what |-> what]

\* the test of `for (...; attempt < maxRetries; ...)` on the locals r: the
\* body calls fn(), or the loop is left and lastError is thrown
LoopTest(r) ==
    IF r.attempt < r.maxRetries
    THEN [r EXCEPT !.pc = "call",
                   !.log = Append(r.log, Did("call", r.attempt, ""))]
    ELSE [r EXCEPT !.pc = "raised", !.raised = r.lastError]

\* retryWithBackoff(fn, maxRetries, baseDelay) up to its first suspension
RetryWithBackoff(maxRetries, baseDelay) ==
    LoopTest([RetryIdle EXCEPT !.maxRetries = maxRetries, !.baseDelay = baseDelay])

\* a catch block that waits after the last attempt as well
CatchAlwaysWaiting(r, error) ==
    LET delay == Delay(r.baseDelay, r.attempt)
    IN  [r EXCEPT !.lastError = error,
                  !.pc = "wait",
                  !.log = r.log \o <<Did("reject", r.attempt, error),
                                     Did("warn", delay, ""),
                                     Did("wait", delay, "")>>]

\* the catch block, fn() having rejected with error: the warning and the
\* timer when an attempt is left, else attempt++ and the loop test
Catch(r, error) ==
    LET delay == Delay(r.baseDelay, r.attempt)
    IN  IF r.attempt < r.maxRetries - 1
        THEN [r EXCEPT !.lastError = error,
                       !.pc = "wait",
                       !.log = r.log \o <<Did("reject", r.attempt, error),
                                          Did("warn", delay, ""),
                                          Did("wait", delay, "")>>]
        ELSE LoopTest([r EXCEPT !.lastError = error,
                                !.attempt = r.attempt + 1,
                                !.log = Append(r.log, Did("reject", r.attempt, error))])

\* model.generateContent calls (fn() calls) made by going from r to r2
NewCalls(r, r2) == IF r2.pc = "call" THEN 1 ELSE 0

\* a caller reaches `await retryWithBackoff(fn, maxRetries, baseDelay)`
RetryStart(maxRetries, baseDelay) ==
    /\ pc = "retry"
    /\ retry.pc = "off"
    /\ retry' = RetryWithBackoff(maxRetries, baseDelay)
    /\ aiCalls' = aiCalls + NewCalls(retry, retry')
    /\ UNCHANGED <<pc, flagHistory, apiKey, userPrompt, planned, commands, confirmAsked,
                   confirmDefault, confirmAnswer, step, children, spawned, results,
                   lastCode, attemptSaves, saves, exitCode, file, clock, store, hist,
                   procs, parseVars, cliVars>>

\* `return await fn()`: the promise resolves to value
FnResolves(value) ==
    /\ retry.pc = "call"
    /\ retry' = [retry EXCEPT !.pc = "returned", !.value = value,
                              !.log = Append(retry.log, Did("resolve", retry.attempt, value))]
    /\ UNCHANGED <<genVars, file, clock, store, hist, procs, parseVars, cliVars>>

\* `await fn()` throws error
FnRejects(error) ==
    /\ retry.pc = "call"
    /\ retry' = Catch(retry, error)
    /\ aiCalls' = aiCalls + NewCalls(retry, retry')
    /\ UNCHANGED <<pc, flagHistory, apiKey, userPrompt, planned, commands, confirmAsked,
                   confirmDefault, confirmAnswer, step, children, spawned, results,
                   lastCode, attemptSaves, saves, exitCode, file, clock, store, hist,
                   procs, parseVars, cliVars>>

\* the setTimeout callback resolves the awaited promise: attempt++ and the
\* loop test
TimerFires ==
    /\ retry.pc = "wait"
    /\ retry' = LoopTest([retry EXCEPT !.attempt = retry.attempt + 1])
    /\ aiCalls' = aiCalls + NewCalls(retry, retry')
    /\ UNCHANGED <<pc, flagHistory, apiKey, userPrompt, planned, commands, confirmAsked,
                   confirmDefault, confirmAnswer, step, children, spawned, results,
                   lastCode, attemptSaves, saves, exitCode, file, clock, store, hist,
                   procs, parseVars, cliVars>>

RetryInit ==
    /\ pc = "retry"
    /\ GenVarsIdle
    /\ HistVarsIdle
    /\ responseText = <<>>
    /\ parsed = NotParsed
    /\ retry = RetryIdle
    /\ CliVarsIdle
    /\ procs = <<>>

RetryNext ==
    \/ \E maxRetries \in 0..MaxRetriesBound, baseDelay \in BaseDelays :
           RetryStart(maxRetries, baseDelay)
    \/ \E value \in RetryValues : FnResolves(value)
    \/ \E error \in RetryErrors : FnRejects(error)
    \/ TimerFires

SpecRetry == RetryInit /\ [][RetryNext]_vars

(***************************************************************************)
(* parseAIResponse on its own                                              *)
(***************************************************************************)
\* most lines in a response
MaxLines == 4

\* 'COMMAND: npm install'
LineCommand == <<"C","O","M","M","A","N","D",":"," ","n","p","m"," ","i","n","s","t","a","l","l">>

\* '  COMMAND:echo a:b '
LineCommandColons == <<" "," ","C","O","M","M","A","N","D",":","e","c","h","o"," ","a",":","b"," ">>

\* 'SUGGESTIONS: a | b | c'
LineSuggestions == <<"S","U","G","G","E","S","T","I","O","N","S",":"," ","a"," ","|"," ","b"," ","|"," ","c">>

\* 'SUGGESTIONS: alt'
LineSuggestionsAlt == <<"S","U","G","G","E","S","T","I","O","N","S",":"," ","a","l","t">>

\* 'SUGGESTIONS: ssh h:22 | b'
LineSuggestionsColon == <<"S","U","G","G","E","S","T","I","O","N","S",":"," ","s","s","h"," ","h",":","2","2"," ","|"," ","b">>

\* 'MULTI_STEP'
LineMultiStep == <<"M","U","L","T","I","_","S","T","E","P">>

\* 'STEP1: mkdir x'
LineStep1 == <<"S","T","E","P","1",":"," ","m","k","d","i","r"," ","x">>

\* 'STEP2: cd x'
LineStep2 == <<"S","T","E","P","2",":"," ","c","d"," ","x">>

\* ' '
LineBlank == <<" ">>

\* 'COMMAND:'
LineCommandEmpty == <<"C","O","M","M","A","N","D",":">>

\* 'STEP3'
LineStepNoColon == <<"S","T","E","P","3">>

\* lines an AI response is made of
SampleLines ==
    {LineCommand,
     LineCommandColons,
     LineSuggestions,
     LineSuggestionsAlt,
     LineSuggestionsColon,
     LineMultiStep,
     LineStep1,
     LineStep2,
     LineBlank,
     LineCommandEmpty,
     LineStepNoColon}

\* the responses: up to MaxLines sample lines, a line feed between them
Responses == UNION {{Join(ls, "\n") : ls \in [1..n -> SampleLines]} : n \in 0..MaxLines}

\* parseAIResponse(responseText)
ApplyParse ==
    /\ pc = "parse"
    /\ parsed' = [applied |-> TRUE,
                  commands |-> ParseAIResponse(responseText).commands,
                  suggestions |-> ParseAIResponse(responseText).suggestions]
    /\ pc' = "parsed"
    /\ UNCHANGED <<flagHistory, apiKey, userPrompt, planned, commands, confirmAsked,
                   confirmDefault, confirmAnswer, step, children, spawned, results,
                   lastCode, attemptSaves, saves, exitCode, aiCalls, file, clock,
                   store, hist, responseText, retry, cliVars, procs>>

ParseInit ==
    /\ pc = "parse"
    /\ GenVarsIdle
    /\ HistVarsIdle
    /\ responseText \in Responses
    /\ parsed = NotParsed
    /\ retry = RetryIdle
    /\ CliVarsIdle
    /\ procs = <<>>

ParseNext == ApplyParse

SpecParse == ParseInit /\ [][ParseNext]_vars

(***************************************************************************)
(* Fix.run, autoDetectAndFix (fix.ts) and Review.run (review.ts)           *)
(*                                                                         *)
(* argv is "none" (no argument), "error" (an error text that names no      *)
(* existing file) or "file" (the path of the user's file, followed in fix  *)
(* by the error text).  userFile is "absent", "tooLarge" (over 1 MB),      *)
(* "original" (what the user wrote) or "fixed" (the AI's code).            *)
(***************************************************************************)
Argvs == {"none", "error", "file"}

UserFiles == {"absent", "tooLarge", "original"}

\* <path>.backup before the run: absent, or left by an earlier run
Backups == {"absent", "stale"}

\* result.response.text(): an analysis alone, or an analysis with a code
\* block (in review, under the heading 'TOP 3 CRITICAL ISSUES')
AiResponses == {"analysis", "code"}

\* what detectErrors finds: an extension it does not run (null), a run
\* without error (null), a run that failed (its output)
Detections == {"unsupported", "clean", "error"}

\* what fs.writeFileSync on a user file throws when it fails
WriteError == "EACCES"

\* fix-history.json or review-history.json when the run starts
CliInitialFiles(s) ==
    {AbsentFile, InvalidFile, NonArrayFile, ArrayFile(<<>>), Foreign(s, 1)}

\* fs.existsSync(filePath) for the path in argv
Exists == argv = "file" /\ userFile # "absent"

\* hasFile of Fix.run
HasFile == Exists

\* errorString of Fix.run
ErrorString == IF argv = "file" THEN "app.js TypeError" ELSE "TypeError"

\* errorInfo.message of autoDetectAndFix
DetectedMessage == "ReferenceError"

\* the record Fix.run hands to saveToHistory
ManualRecord(success) ==
    FixHistory(IF HasFile THEN "app.js" ELSE "N/A", ErrorString, success, "manual", clock)

\* the record autoDetectAndFix hands to saveToHistory
AutoRecord(success) ==
    FixHistory("app.js", DetectedMessage, success, "auto", clock)

\* the record Review.run and displayReviewResults hand to saveToHistory
ReviewRecord(issuesFound, success) ==
    ReviewHistory("app.js", "JavaScript", issuesFound, success, clock)

\* issueCount of displayReviewResults for the response with a code block
IssueCount == 3

\* this.exit(code) or a return before the AI call
Quit(code) ==
    /\ Exit(code)
    /\ UNCHANGED <<retry, aiCalls, effects>>

\* `await retryWithBackoff(() => model.generateContent(...))` up to its
\* first suspension; the caller waits at position next
CallAI(next) ==
    /\ pc' = next
    /\ retry' = RetryWithBackoff(DefaultMaxRetries, DefaultBaseDelay)
    /\ aiCalls' = aiCalls + NewCalls(retry, retry')
    /\ UNCHANGED exitCode

\* a --history branch without its return: the run goes on to the AI call
ShowHistoryFallingThrough ==
    CallAI("fixAI") /\ UNCHANGED effects

\* showHistory of fix and of review: getHistory, then the listing, which
\* throws on a value that is not an array
ShowHistory ==
    Quit(IF StoreGet(store, file).isArray THEN 0 ELSE 1)

\* saveToHistory(record) as the last statement of the try block.  When it
\* throws, the catch block calls saveToHistory(failRecord), which throws
\* the same way, out of run().
SaveInTry(record, failRecord, writeOk) ==
    LET r == StoreSave(store, file, record, writeOk)
    IN  IF ~r.threw
        THEN /\ file' = r.file
             /\ saves' = Append(saves, record)
             /\ clock' = clock + 1
             /\ UNCHANGED caught
             /\ Exit(0)
        ELSE /\ UNCHANGED file
             /\ saves' = saves \o <<record, [failRecord EXCEPT !.timestamp = clock + 1]>>
             /\ clock' = clock + 2
             /\ caught' = "TypeError"
             /\ Exit(1)

\* a catch block that records nothing
SaveInCatchNothing(error, record, writeOk) ==
    /\ caught' = error
    /\ UNCHANGED <<file, saves, clock>>
    /\ Exit(0)

\* the catch block of the command, having caught error: saveToHistory(record),
\* after which run() returns
SaveInCatch(error, record, writeOk) ==
    LET r == StoreSave(store, file, record, writeOk)
    IN  /\ caught' = error
        /\ file' = r.file
        /\ saves' = Append(saves, record)
        /\ clock' = clock + 1
        /\ Exit(IF r.threw THEN 1 ELSE 0)

\* Fix.run from its start to the AI call: the API key, --history, --auto
\* (autoDetectAndFix up to its AI call, detectErrors finding detected), the
\* arguments and the file
FixStart(detected) ==
    /\ pc = "fixStart"
    /\ IF ~apiKey THEN Quit(1)
       ELSE IF flagHistory THEN ShowHistory
       ELSE IF flagAuto
       THEN IF argv = "none" \/ ~Exists \/ userFile = "tooLarge"
            THEN Quit(1)
            ELSE /\ effects' = IF detected = "unsupported"
                               THEN effects
                               ELSE effects \o <<"run", detected>>
                 /\ IF detected # "error"
                    THEN Exit(0) /\ UNCHANGED <<retry, aiCalls>>
                    ELSE CallAI("autoAI")
       ELSE IF argv = "none" THEN Quit(1)
       ELSE IF Exists /\ userFile = "tooLarge" THEN Quit(1)
       ELSE CallAI("fixAI") /\ UNCHANGED effects
    /\ UNCHANGED <<flagHistory, apiKey, userPrompt, planned, commands, confirmAsked,
                   confirmDefault, confirmAnswer, step, children, spawned, results,
                   lastCode, attemptSaves, saves, file, clock, store, hist,
                   procs, parseVars, cmd, flagAuto, argv, userFile, backup, caught>>

\* Fix.run after the AI call returned: the fix is shown and confirm() is
\* awaited, or the analysis is shown and the run recorded
FixAnalysed(writeOk) ==
    /\ pc = "fixAI"
    /\ retry.pc = "returned"
    /\ IF retry.value = "code" /\ HasFile
       THEN /\ pc' = "fixConfirm"
            /\ UNCHANGED <<exitCode, file, saves, clock, caught>>
       ELSE SaveInTry(FixHistory("N/A", ErrorString, TRUE, "manual", clock),
                      ManualRecord(FALSE), writeOk)
    /\ UNCHANGED <<flagHistory, apiKey, userPrompt, planned, commands, confirmAsked,
                   confirmDefault, confirmAnswer, step, children, spawned, results,
                   lastCode, attemptSaves, aiCalls, store, hist, procs, parseVars, retry,
                   cmd, flagAuto, argv, userFile, backup, effects>>

\* Fix.run after confirm(): the file is overwritten (wrote: writeFileSync
\* did not throw) and the run recorded
FixApply(answer, wrote, writeOk) ==
    /\ pc = "fixConfirm"
    /\ IF AnsweredYes(answer)
       THEN IF wrote
            THEN /\ userFile' = "fixed"
                 /\ effects' = effects \o <<answer, "overwrite">>
                 /\ SaveInTry(ManualRecord(TRUE), ManualRecord(FALSE), writeOk)
            ELSE /\ UNCHANGED userFile
                 /\ effects' = Append(effects, answer)
                 /\ SaveInCatch(WriteError, ManualRecord(FALSE), writeOk)
       ELSE /\ UNCHANGED userFile
            /\ effects' = Append(effects, answer)
            /\ SaveInTry(ManualRecord(FALSE), ManualRecord(FALSE), writeOk)
    /\ UNCHANGED <<flagHistory, apiKey, userPrompt, planned, commands, confirmAsked,
                   confirmDefault, confirmAnswer, step, children, spawned, results,
                   lastCode, attemptSaves, aiCalls, store, hist, procs, parseVars, retry,
                   cmd, flagAuto, argv, backup>>

\* the catch block of Fix.run after retryWithBackoff raised
FixFailed(writeOk) ==
    /\ pc = "fixAI"
    /\ retry.pc = "raised"
    /\ SaveInCatch(retry.raised, ManualRecord(FALSE), writeOk)
    /\ UNCHANGED <<flagHistory, apiKey, userPrompt, planned, commands, confirmAsked,
                   confirmDefault, confirmAnswer, step, children, spawned, results,
                   lastCode, attemptSaves, aiCalls, store, hist, procs, parseVars, retry,
                   cmd, flagAuto, argv, userFile, backup, effects>>

\* autoDetectAndFix after the AI call returned
AutoAnalysed(writeOk) ==
    /\ pc = "autoAI"
    /\ retry.pc = "returned"
    /\ IF retry.value = "code"
       THEN /\ pc' = "autoConfirm"
            /\ UNCHANGED <<exitCode, file, saves, clock, caught>>
       ELSE SaveInTry(AutoRecord(TRUE), AutoRecord(FALSE), writeOk)
    /\ UNCHANGED <<flagHistory, apiKey, userPrompt, planned, commands, confirmAsked,
                   confirmDefault, confirmAnswer, step, children, spawned, results,
                   lastCode, attemptSaves, aiCalls, store, hist, procs, parseVars, retry,
                   cmd, flagAuto, argv, userFile, backup, effects>>

\* autoDetectAndFix after confirm(): the file is overwritten, detectErrors
\* runs it again (finding verified) and the run is recorded
AutoApply(answer, wrote, verified, writeOk) ==
    /\ pc = "autoConfirm"
    /\ IF AnsweredYes(answer)
       THEN IF wrote
            THEN /\ userFile' = "fixed"
                 /\ effects' = effects \o <<answer, "overwrite", "run", verified>>
                 /\ SaveInTry(AutoRecord(verified = "clean"), AutoRecord(FALSE), writeOk)
            ELSE /\ UNCHANGED userFile
                 /\ effects' = Append(effects, answer)
                 /\ SaveInCatch(WriteError, AutoRecord(FALSE), writeOk)
       ELSE /\ UNCHANGED userFile
            /\ effects' = Append(effects, answer)
            /\ SaveInTry(AutoRecord(FALSE), AutoRecord(FALSE), writeOk)
    /\ UNCHANGED <<flagHistory, apiKey, userPrompt, planned, commands, confirmAsked,
                   confirmDefault, confirmAnswer, step, children, spawned, results,
                   lastCode, attemptSaves, aiCalls, store, hist, procs, parseVars, retry,
                   cmd, flagAuto, argv, backup>>

\* the catch block of autoDetectAndFix after retryWithBackoff raised
AutoFailed(writeOk) ==
    /\ pc = "autoAI"
    /\ retry.pc = "raised"
    /\ SaveInCatch(retry.raised, AutoRecord(FALSE), writeOk)
    /\ UNCHANGED <<flagHistory, apiKey, userPrompt, planned, commands, confirmAsked,
                   confirmDefault, confirmAnswer, step, children, spawned, results,
                   lastCode, attemptSaves, aiCalls, store, hist, procs, parseVars, retry,
                   cmd, flagAuto, argv, userFile, backup, effects>>

\* a Review.run that looks at --history before the API key, as Gen.run does
ReviewStartHistoryFirst ==
    /\ pc = "reviewStart"
    /\ IF flagHistory THEN ShowHistory
       ELSE IF ~apiKey THEN Quit(1)
       ELSE IF argv = "none" \/ ~Exists \/ userFile = "tooLarge" THEN Quit(1)
       ELSE CallAI("reviewAI") /\ UNCHANGED effects
    /\ UNCHANGED <<flagHistory, apiKey, userPrompt, planned, commands, confirmAsked,
                   confirmDefault, confirmAnswer, step, children, spawned, results,
                   lastCode, attemptSaves, saves, file, clock, store, hist,
                   procs, parseVars, cmd, flagAuto, argv, userFile, backup, caught>>

\* Review.run from its start to the AI call
ReviewStart ==
    /\ pc = "reviewStart"
    /\ IF ~apiKey THEN Quit(1)
       ELSE IF flagHistory THEN ShowHistory
       ELSE IF argv = "none" \/ ~Exists \/ userFile = "tooLarge" THEN Quit(1)
       ELSE CallAI("reviewAI") /\ UNCHANGED effects
    /\ UNCHANGED <<flagHistory, apiKey, userPrompt, planned, commands, confirmAsked,
                   confirmDefault, confirmAnswer, step, children, spawned, results,
                   lastCode, attemptSaves, saves, file, clock, store, hist,
                   procs, parseVars, cmd, flagAuto, argv, userFile, backup, caught>>

\* displayReviewResults up to confirm(): with a code block in the response
\* the original is written to <path>.backup (wrote: writeFileSync did not
\* throw) before the question; without one the run is recorded
ReviewAnalysed(wrote, writeOk) ==
    /\ pc = "reviewAI"
    /\ retry.pc = "returned"
    /\ IF retry.value = "code"
       THEN IF wrote
            THEN /\ backup' = userFile
                 /\ effects' = Append(effects, "backup")
                 /\ pc' = "reviewConfirm"
                 /\ UNCHANGED <<exitCode, file, saves, clock, caught>>
            ELSE /\ UNCHANGED <<backup, effects>>
                 /\ SaveInCatch(WriteError, ReviewRecord(0, FALSE), writeOk)
       ELSE /\ UNCHANGED <<backup, effects>>
            /\ SaveInTry(ReviewRecord(0, TRUE), ReviewRecord(0, FALSE), writeOk)
    /\ UNCHANGED <<flagHistory, apiKey, userPrompt, planned, commands, confirmAsked,
                   confirmDefault, confirmAnswer, step, children, spawned, results,
                   lastCode, attemptSaves, aiCalls, store, hist, procs, parseVars, retry,
                   cmd, flagAuto, argv, userFile>>

\* displayReviewResults after confirm()
ReviewApply(answer, wrote, writeOk) ==
    /\ pc = "reviewConfirm"
    /\ IF AnsweredYes(answer)
       THEN IF wrote
            THEN /\ userFile' = "fixed"
                 /\ effects' = effects \o <<answer, "overwrite">>
                 /\ SaveInTry(ReviewRecord(IssueCount, TRUE), ReviewRecord(0, FALSE), writeOk)
            ELSE /\ UNCHANGED userFile
                 /\ effects' = Append(effects, answer)
                 /\ SaveInCatch(WriteError, ReviewRecord(0, FALSE), writeOk)
       ELSE /\ UNCHANGED userFile
            /\ effects' = Append(effects, answer)
            /\ SaveInTry(ReviewRecord(IssueCount, FALSE), ReviewRecord(0, FALSE), writeOk)
    /\ UNCHANGED <<flagHistory, apiKey, userPrompt, planned, commands, confirmAsked,
                   confirmDefault, confirmAnswer, step, children, spawned, results,
                   lastCode, attemptSaves, aiCalls, store, hist, procs, parseVars, retry,
                   cmd, flagAuto, argv, backup>>

\* the catch block of Review.run after retryWithBackoff raised
ReviewFailed(writeOk) ==
    /\ pc = "reviewAI"
    /\ retry.pc = "raised"
    /\ SaveInCatch(retry.raised, ReviewRecord(0, FALSE), writeOk)
    /\ UNCHANGED <<flagHistory, apiKey, userPrompt, planned, commands, confirmAsked,
                   confirmDefault, confirmAnswer, step, children, spawned, results,
                   lastCode, attemptSaves, aiCalls, store, hist, procs, parseVars, retry,
                   cmd, flagAuto, argv, userFile, backup, effects>>

\* a fix or review run about to start
FixInit ==
    /\ cmd \in {"fix", "review"}
    /\ pc = (IF cmd = "fix" THEN "fixStart" ELSE "reviewStart")
    /\ flagHistory \in BOOLEAN
    /\ apiKey \in BOOLEAN
    /\ flagAuto \in (IF cmd = "fix" THEN BOOLEAN ELSE {FALSE})
    /\ argv \in Argvs
    /\ userFile \in UserFiles
    /\ backup \in Backups
    /\ store = cmd
    /\ file \in CliInitialFiles(store)
    /\ hist = [Idle EXCEPT !.before = file]
    /\ clock = 1
    /\ userPrompt = ""
    /\ planned = FALSE
    /\ commands = <<>>
    /\ confirmAsked = FALSE
    /\ confirmDefault = TRUE
    /\ confirmAnswer = "none"
    /\ step = 0
    /\ children = {}
    /\ spawned = <<>>
    /\ results = <<>>
    /\ lastCode = "none"
    /\ attemptSaves = 0
    /\ saves = <<>>
    /\ exitCode = 0
    /\ aiCalls = 0
    /\ responseText = <<>>
    /\ parsed = NotParsed
    /\ retry = RetryIdle
    /\ effects = <<>>
    /\ caught = "none"
    /\ procs = <<>>

FixNext ==
    \/ \E detected \in Detections : FixStart(detected)
    \/ \E value \in AiResponses : FnResolves(value)
    \/ \E error \in AiErrors : FnRejects(error)
    \/ TimerFires
    \/ \E writeOk \in BOOLEAN : FixAnalysed(writeOk)
    \/ \E answer \in {"yes", "no"}, wrote \in BOOLEAN, writeOk \in BOOLEAN :
           FixApply(answer, wrote, writeOk)
    \/ \E writeOk \in BOOLEAN : FixFailed(writeOk)
    \/ \E writeOk \in BOOLEAN : AutoAnalysed(writeOk)
    \/ \E answer \in {"yes", "no"}, wrote \in BOOLEAN,
          verified \in {"clean", "error"}, writeOk \in BOOLEAN :
           AutoApply(answer, wrote, verified, writeOk)
    \/ \E writeOk \in BOOLEAN : AutoFailed(writeOk)
    \/ ReviewStart
    \/ \E wrote \in BOOLEAN, writeOk \in BOOLEAN : ReviewAnalysed(wrote, writeOk)
    \/ \E answer \in {"yes", "no"}, wrote \in BOOLEAN, writeOk \in BOOLEAN :
           ReviewApply(answer, wrote, writeOk)
    \/ \E writeOk \in BOOLEAN : ReviewFailed(writeOk)

\* one run of one of the three commands
CliInit == Init \/ FixInit

CliNext == Next \/ FixNext

SpecCli == CliInit /\ [][CliNext]_vars

(***************************************************************************)
(* Two invocations of the tool inside saveToHistory on the same history    *)
(* file.  Nothing locks the file: each process reads it (getHistory),      *)
(* builds its array (unshift, splice) and writes it back.                  *)
(* fs.writeFileSync opens the file with flag 'w', which empties it, and    *)
(* then writes from offset 0, so the other process can read an empty file  *)
(* in between, and two writes that overlap can leave the tail of the       *)
(* longer text behind the shorter one.                                     *)
(***************************************************************************)
Procs == {1, 2}

\* the history file when the two invocations start: a log of at most 50
\* records
RaceInitialFiles(s) ==
    {AbsentFile, ArrayFile(<<>>), Foreign(s, 1), Foreign(s, MaxHistory - 1),
     Foreign(s, MaxHistory)}

\* the record invocation p appends
RaceRecord(s, p) == StoreRecord(s, p = 1, MaxHistory + p)

\* const history = this.getHistory()
RaceRead(p) ==
    /\ pc = "race"
    /\ procs[p].pc = "start"
    /\ procs' = [procs EXCEPT ![p].pc = "write", ![p].history = StoreGet(store, file)]
    /\ UNCHANGED <<genVars, file, clock, store, hist, parseVars, retry, cliVars>>

\* unshift and splice on the array read, then the open of fs.writeFileSync:
\* the file is emptied, or the open fails and the catch block warns
RaceOpen(p, openOk) ==
    /\ pc = "race"
    /\ procs[p].pc = "write"
    /\ IF WriteBack(file, procs[p].history, procs[p].record, openOk).threw \/ ~openOk
       THEN /\ procs' = [procs EXCEPT ![p].pc = "done"]
            /\ UNCHANGED file
       ELSE /\ procs' = [procs EXCEPT ![p].pc = "opened"]
            /\ file' = InvalidFile
    /\ UNCHANGED <<genVars, clock, store, hist, parseVars, retry, cliVars>>

\* the write of fs.writeFileSync.  Text found in the file was written by the
\* other process after this one's open; it is overwritten whole, or (torn)
\* its tail stays behind this process's shorter text, which is no JSON.
RaceWrite(p, torn) ==
    /\ pc = "race"
    /\ procs[p].pc = "opened"
    /\ torn => file.kind = "array"
    /\ file' = IF torn
               THEN InvalidFile
               ELSE WriteBack(file, procs[p].history, procs[p].record, TRUE).file
    /\ procs' = [procs EXCEPT ![p].pc = "done", ![p].wrote = TRUE]
    /\ UNCHANGED <<genVars, clock, store, hist, parseVars, retry, cliVars>>

RaceInit ==
    /\ pc = "race"
    /\ GenVarsIdle
    /\ store \in Stores
    /\ file \in RaceInitialFiles(store)
    /\ clock = 1
    /\ hist = [Idle EXCEPT !.before = file]
    /\ responseText = <<>>
    /\ parsed = NotParsed
    /\ retry = RetryIdle
    /\ CliVarsIdle
    /\ procs = [p \in Procs |->
                  [pc |-> "start", history |-> StoreGet(store, AbsentFile),
                   record |-> RaceRecord(store, p), wrote |-> FALSE]]

RaceNext ==
    \/ \E p \in Procs : RaceRead(p)
    \/ \E p \in Procs, openOk \in BOOLEAN : RaceOpen(p, openOk)
    \/ \E p \in Procs, torn \in BOOLEAN : RaceWrite(p, torn)

SpecRace == RaceInit /\ [][RaceNext]_vars

(***************************************************************************)
(* Properties.  The notions they use are stated here on their own, apart   *)
(* from the operators that model the code.                                 *)
(***************************************************************************)
\* a and b are the same character up to letter case
SameLetter(a, b) ==
    \/ a = b
    \/ \E i \in 1..Len(UpperLetters) : {a, b} = {UpperLetters[i], LowerLetters[i]}

\* p occurs in s as a case-insensitive substring
ContainsIgnoringCase(s, p) ==
    \E k \in 0..(Len(s) - Len(p)) : \A j \in 1..Len(p) : SameLetter(s[k + j], p[j])

HasBlacklistedPattern(command) ==
    \E d \in 1..Len(dangerousCommands) : ContainsIgnoringCase(command, dangerousCommands[d])

HasDestructiveKeyword(command) ==
    \E d \in 1..Len(destructiveKeywords) : ContainsIgnoringCase(command, destructiveKeywords[d])

\* the sample commands that contain a blacklisted pattern
BlacklistedSamples == {c \in SampleCommands : HasBlacklistedPattern(c)}

\* the sample commands that contain a destructive keyword
DestructiveSamples == {c \in SampleCommands : HasDestructiveKeyword(c)}

\* isBlacklisted is true of every sample that contains a blacklisted pattern
BlacklistedRecognised == \A c \in BlacklistedSamples : IsBlacklisted(c)

\* isDestructive is true of every sample that contains a destructive keyword
DestructiveRecognised == \A c \in DestructiveSamples : IsDestructive(c)

PlanHasBlacklisted == \E i \in 1..Len(commands) : commands[i] \in BlacklistedSamples

PlanHasDestructive == \E i \in 1..Len(commands) : commands[i] \in DestructiveSamples

Min(a, b) == IF a < b THEN a ELSE b

\* C1: a plan (single command, multi-step list, or a command re-run from
\* --history) with a command that contains a blacklisted pattern as a
\* case-insensitive substring is vetoed whole: isBlacklisted is true of that
\* command, no child is ever spawned, the execution confirmation is never
\* offered, no history record is written, and the run has ended non-zero.
C1_BlacklistVeto ==
    /\ BlacklistedRecognised
    /\ (planned /\ PlanHasBlacklisted) =>
          /\ spawned = <<>>
          /\ children = {}
          /\ ~confirmAsked
          /\ confirmAnswer = "none"
          /\ saves = <<>>
          /\ pc = "done"
          /\ exitCode # 0

\* C1 happens: a vetoed multi-step plan whose first step is safe and whose
\* second step is blacklisted in upper case
C1_Witness ==
    /\ planned
    /\ commands = <<CmdLs, CmdRmRoot>>
    /\ pc = "done"
    /\ exitCode = 1

\* C2: once the confirmation is offered, its default is 'no' exactly when
\* isDestructive holds for some command of the plan (the single command, or
\* at least one step), and 'yes' otherwise; isDestructive is true of every
\* command containing a destructive keyword as a case-insensitive substring.
C2_DefaultAnswer ==
    /\ DestructiveRecognised
    /\ confirmAsked => (confirmDefault = FALSE <=> PlanHasDestructive)

\* C2 happens: a two-step plan whose second step alone is destructive is
\* offered with the default 'no'
C2_Witness ==
    /\ confirmAsked
    /\ commands = <<CmdLs, CmdAdd>>
    /\ confirmDefault = FALSE

\* C3: the safety gate never refuses a plan for being destructive: when some
\* command is destructive and none is blacklisted, the confirmation prompt is
\* reached, and once the user has answered yes the plan's first command has
\* been spawned (for a single command: that command).
C3_DestructiveNotRefused ==
    (planned /\ PlanHasDestructive /\ ~PlanHasBlacklisted) =>
        /\ confirmAsked
        /\ confirmAnswer = "none" => pc \in {"confirmSingle", "confirmMulti"}
        /\ confirmAnswer = "yes" => (Len(spawned) >= 1 /\ spawned[1] = commands[1])
        /\ pc = "done" /\ exitCode # 0 => \E i \in 1..Len(results) : ~results[i]

\* C3 happens: "rm -rf x" alone, confirmed, spawned
C3_Witness ==
    /\ commands = <<CmdRmDir>>
    /\ confirmAnswer = "yes"
    /\ spawned = <<CmdRmDir>>

C5_SequentialFailFast ==
    /\ Cardinality(children) <= 1
    /\ Len(spawned) <= Len(commands)
    /\ \A i \in 1..Len(spawned) : spawned[i] = commands[i]
    /\ Len(results) <= Len(spawned)
    /\ Len(spawned) <= Len(results) + 1
    /\ \A i \in 1..(Len(spawned) - 1) : results[i]
    /\ children # {} => children = {Len(spawned)}
    /\ (Len(commands) >= 2 /\ pc = "done" /\ \E i \in 1..Len(results) : ~results[i]) =>
          exitCode # 0

\* C5 happens: steps [ok, fail, ok]: exactly the first two ran, exit 1
C5_Witness ==
    /\ Len(commands) = 3
    /\ results = <<TRUE, FALSE>>
    /\ Len(spawned) = 2
    /\ pc = "done"
    /\ exitCode = 1

\* C6: in a multi-step run the number of gen records written by the run
\* equals, at every moment, the number of steps that have finished (one
\* record per attempted step, written when the step finishes).
C6_RecordPerFinishedStep ==
    Len(commands) >= 2 => Len(saves) = Len(results)

\* C7: when executeCommand hands its result to the caller, the attempt has
\* written exactly one history record, however the child ended.
C7_ExactlyOneRecordPerAttempt ==
    pc = "resolved" => attemptSaves = 1

\* C8: after every successful saveToHistory write the stored log is an array
\* of at most 50 records, whatever the file held before; a log that started
\* empty and met no I/O failure holds exactly min(n, 50) records after n
\* appends.
C8_BoundedLog ==
    /\ (hist.op = "save" /\ hist.wrote) =>
          (file.kind = "array" /\ Len(file.items) <= 50)
    /\ (hist.fromEmpty /\ hist.failures = 0) =>
          Len(file.items) = Min(hist.appends, 50)

\* C8 happens: the 51st append to a log that started empty leaves 50 records
C8_Witness ==
    /\ hist.fromEmpty
    /\ hist.failures = 0
    /\ hist.op = "save"
    /\ hist.appends = 51
    /\ Len(file.items) = 50

\* C9: a successful saveToHistory on a log L stores the new record followed
\* by the first 49 records of L (all of L when it has fewer than 50), in
\* their order; a log built by appends alone is ordered newest-first.
C9_PrependAndEvictOldest ==
    /\ (hist.op = "save" /\ hist.wrote) =>
          LET L == IF hist.before.kind = "array" THEN hist.before.items ELSE <<>>
          IN  /\ Len(file.items) = 1 + Min(Len(L), 49)
              /\ file.items[1] = hist.record
              /\ \A i \in 1..Min(Len(L), 49) : file.items[i + 1] = L[i]
    /\ hist.fromEmpty =>
          \A i \in 1..Len(file.items) : \A j \in i..Len(file.items) :
              file.items[i].timestamp >= file.items[j].timestamp

\* C9 happens: an append to a full gen log evicts its last record
C9_Witness ==
    /\ store = "gen"
    /\ hist.op = "save"
    /\ hist.wrote
    /\ hist.before.kind = "array"
    /\ Len(hist.before.items) = 50
    /\ file.items[50] = hist.before.items[49]

\* C10: getHistory raises nothing and leaves the file as it was; it returns
\* the empty list when the file is absent, unreadable or not valid JSON, and
\* the stored list otherwise.
C10_GetHistoryTolerant ==
    hist.op = "get" =>
        /\ ~hist.raised
        /\ file = hist.before
        /\ hist.before.kind \in {"absent", "unreadable", "invalid"} =>
              (hist.retIsArray /\ hist.ret = <<>>)
        /\ hist.before.kind = "array" =>
              (hist.retIsArray /\ hist.ret = hist.before.items)
        /\ hist.before.kind = "nonarray" => ~hist.retIsArray

\* C10 happens: getHistory on a gen history file holding invalid JSON
C10_Witness ==
    /\ store = "gen"
    /\ hist.op = "get"
    /\ hist.before.kind = "invalid"
    /\ hist.ret = <<>>

\* C11: saveToHistory returns normally whatever the history file holds
\* (absent, unreadable, invalid JSON, JSON of any shape) and whatever the
\* write does: nothing is raised to the caller, and a write that did not
\* succeed leaves the file as it was.
C11_SaveNeverRaises ==
    hist.op = "save" =>
        /\ ~hist.raised
        /\ ~hist.wrote => file = hist.before

\* the entries of kind ev among what the retryWithBackoff call did
IsCall(d) == d.ev = "call"

IsResolve(d) == d.ev = "resolve"

IsReject(d) == d.ev = "reject"

IsWarn(d) == d.ev = "warn"

IsWait(d) == d.ev = "wait"

Calls == SelectSeq(retry.log, IsCall)

Resolves == SelectSeq(retry.log, IsResolve)

Rejects == SelectSeq(retry.log, IsReject)

Warns == SelectSeq(retry.log, IsWarn)

Waits == SelectSeq(retry.log, IsWait)

\* C12: when retryWithBackoff returns, the operation succeeded for the first
\* time on some attempt k with 1 <= k <= maxRetries: the value returned is
\* that attempt's value, the operation was invoked exactly k times and not
\* again after the success, and exactly k-1 waits occurred, the i-th
\* (i = 0..k-2) lasting baseDelay * 2^i.  With maxRetries = 3 and two
\* failures before the success, the waits are baseDelay and baseDelay * 2.
C12_ReturnsFirstSuccess ==
    retry.pc = "returned" =>
        LET k == Len(Calls)
        IN  /\ 1 <= k /\ k <= retry.maxRetries
            /\ Len(Rejects) = k - 1
            /\ Len(Resolves) = 1
            /\ retry.log[Len(retry.log)].ev = "resolve"
            /\ retry.value = retry.log[Len(retry.log)].what
            /\ Len(Waits) = k - 1
            /\ \A i \in 0..(k - 2) : Waits[i + 1].n = retry.baseDelay * (2 ^ i)
            /\ (retry.maxRetries = 3 /\ Len(Rejects) = 2) =>
                  (Waits[1].n = retry.baseDelay /\ Waits[2].n = retry.baseDelay * 2)

\* C12 happens: with maxRetries = 4 and baseDelay = 1000, the fourth attempt
\* succeeds after waits of 1000, 2000 and 4000
C12_Witness ==
    /\ retry.pc = "returned"
    /\ retry.maxRetries = 4
    /\ retry.baseDelay = 1000
    /\ Len(Calls) = 4
    /\ retry.value = "v2"
    /\ Len(Waits) = 3
    /\ Waits[3].n = 4000

\* C13: when the operation fails on every attempt (maxRetries >= 1),
\* retryWithBackoff raises after exactly maxRetries invocations and exactly
\* maxRetries - 1 waits, each wait coming right after a warning announcing it
\* and none after the last attempt; what it raises is the failure of the last
\* attempt itself.
C13_RaisesLastFailure ==
    (retry.pc = "raised" /\ retry.maxRetries >= 1) =>
        LET n == Len(retry.log)
        IN  /\ Len(Calls) = retry.maxRetries
            /\ Len(Rejects) = retry.maxRetries
            /\ Len(Resolves) = 0
            /\ Len(Waits) = retry.maxRetries - 1
            /\ Len(Warns) = retry.maxRetries - 1
            /\ \A i \in 1..n : retry.log[i].ev = "wait" =>
                  (i > 1 /\ retry.log[i - 1].ev = "warn"
                         /\ retry.log[i - 1].n = retry.log[i].n)
            /\ retry.log[n].ev = "reject"
            /\ retry.raised = retry.log[n].what

\* C13 happens: three attempts fail with e1, e1 and e2; e2 is raised after
\* two waits
C13_Witness ==
    /\ retry.pc = "raised"
    /\ retry.maxRetries = 3
    /\ Len(Rejects) = 3
    /\ Rejects[1].what = "e1"
    /\ Rejects[3].what = "e2"
    /\ retry.raised = "e2"
    /\ Len(Waits) = 2

\* the lines of the response as the parser reads them: trimmed, the empty
\* ones dropped
ResponseLines == SelectSeq(MapTrim(Split(responseText, "\n")), Truthy)

BeginsCommand(line) == StartsWith(line, CommandMarker)

BeginsStep(line) == StartsWith(line, StepMarker)

BeginsSuggestions(line) == StartsWith(line, SuggestionsMarker)

\* the text of a line after its first colon, later colons included, trimmed
AfterFirstColon(line) ==
    LET at == {i \in 1..Len(line) : line[i] = ":"}
    IN  IF at = {} THEN <<>> ELSE Trim(SubSeq(line, Least(at) + 1, Len(line)))

\* the alternatives of a SUGGESTIONS line: what follows the marker, cut at
\* the pipes, each piece trimmed
Alternatives(line) ==
    MapTrim(Split(SubSeq(line, Len(SuggestionsMarker) + 1, Len(line)), "|"))

\* the suggestions are those of the SUGGESTIONS line, when there is one
SuggestionsYielded ==
    LET sl == SelectSeq(ResponseLines, BeginsSuggestions)
    IN  /\ Len(sl) = 0 => parsed.suggestions = <<>>
        /\ Len(sl) = 1 => parsed.suggestions = Alternatives(sl[1])

\* C14: on a response without MULTI_STEP, the commands are, in line order,
\* the trimmed text after the first colon of each line beginning with
\* 'COMMAND:' (later colons kept), and a SUGGESTIONS line yields its trimmed
\* pipe-separated alternatives in order; "COMMAND: npm install" followed by
\* "SUGGESTIONS: a | b | c" gives ["npm install"] and ["a", "b", "c"].
C14_SingleCommandShape ==
    (parsed.applied /\ ~Includes(responseText, MultiStepMarker)) =>
        LET cl == SelectSeq(ResponseLines, BeginsCommand)
        IN  /\ Len(parsed.commands) = Len(cl)
            /\ \A i \in 1..Len(cl) : parsed.commands[i] = AfterFirstColon(cl[i])
            /\ SuggestionsYielded
            /\ responseText = Join(<<LineCommand, LineSuggestions>>, "\n") =>
                  /\ parsed.commands = <<<<"n","p","m"," ","i","n","s","t","a","l","l">>>>
                  /\ parsed.suggestions = << <<"a">>, <<"b">>, <<"c">> >>

\* C15: on a response containing MULTI_STEP, the commands are, in line
\* order, the text after the first colon of each line beginning with 'STEP',
\* one per line; COMMAND lines and the MULTI_STEP line give none; a
\* SUGGESTIONS line yields its alternatives; "MULTI_STEP", "STEP1: mkdir x",
\* "STEP2: cd x", "SUGGESTIONS: alt" gives ["mkdir x", "cd x"] and ["alt"].
C15_MultiStepShape ==
    (parsed.applied /\ Includes(responseText, MultiStepMarker)) =>
        LET st == SelectSeq(ResponseLines, BeginsStep)
        IN  /\ Len(parsed.commands) = Len(st)
            /\ \A i \in 1..Len(st) : parsed.commands[i] = AfterFirstColon(st[i])
            /\ SuggestionsYielded
            /\ responseText = Join(<<LineMultiStep, LineStep1, LineStep2,
                                     LineSuggestionsAlt>>, "\n") =>
                  /\ parsed.commands = <<<<"m","k","d","i","r"," ","x">>, <<"c","d"," ","x">>>>
                  /\ parsed.suggestions = <<<<"a","l","t">>>>

\* C16: when the text the AI answered begins with 'ERROR:', gen goes no
\* further: parseAIResponse is not applied, no confirmation is asked, no
\* process is spawned, no history record is written, and the run has ended
\* with a non-zero exit.
C16_ErrorShortCircuits ==
    (cmd = "gen" /\ StartsWith(responseText, ErrorMarker)) =>
        /\ ~parsed.applied
        /\ ~planned
        /\ ~confirmAsked
        /\ confirmAnswer = "none"
        /\ spawned = <<>>
        /\ children = {}
        /\ saves = <<>>
        /\ pc = "done"
        /\ exitCode # 0

\* C16 happens: the AI answered ' ERROR: bukan perintah' and the run is over
C16_Witness ==
    /\ cmd = "gen"
    /\ aiCalls = 1
    /\ responseText = Trim(RefusalResponse)
    /\ StartsWith(responseText, ErrorMarker)
    /\ pc = "done"
    /\ exitCode = 1

\* the external AI call of the run failed for good: generateCommand caught
\* the failure (gen), or retryWithBackoff raised (fix, review)
AiCallFailed ==
    \/ cmd = "gen" /\ caught \in AiErrors
    \/ cmd \in {"fix", "review"} /\ retry.pc = "raised"

\* C17 as stated: in each of gen, fix and review, a run whose AI call failed
\* has made 3 attempts and ends with exactly one record handed to
\* saveToHistory, with success = false.
C17_FailureRetriedAndRecorded ==
    (pc = "done" /\ AiCallFailed) =>
        /\ aiCalls = DefaultMaxRetries
        /\ Len(saves) = 1
        /\ ~saves[1].success

\* C17 amended: in fix and review a failing AI call is attempted 3 times,
\* with waits of 1000 ms and 2000 ms between the attempts, and after the
\* third failure the catch block of the command hands exactly one record to
\* saveToHistory, with success = false.  In gen the AI call is made once,
\* without retry, and a run whose AI call failed ends with exit status 1 and
\* no record handed to saveToHistory.
C17_RetriedAndRecordedInFixAndReview ==
    (pc = "done" /\ AiCallFailed) =>
        IF cmd = "gen"
        THEN /\ aiCalls = 1
             /\ retry.pc = "off"
             /\ saves = <<>>
             /\ file = hist.before
             /\ exitCode = 1
        ELSE /\ aiCalls = DefaultMaxRetries
             /\ Len(Rejects) = DefaultMaxRetries
             /\ Len(Waits) = 2
             /\ Waits[1].n = DefaultBaseDelay
             /\ Waits[2].n = DefaultBaseDelay * 2
             /\ caught = retry.raised
             /\ Len(saves) = 1
             /\ ~saves[1].success

\* C17 happens: a review run whose three attempts failed has ended, the one
\* failed record at the head of review-history.json
C17_Witness ==
    /\ pc = "done"
    /\ cmd = "review"
    /\ retry.pc = "raised"
    /\ aiCalls = 3
    /\ Len(saves) = 1
    /\ file.kind = "array"
    /\ Len(file.items) = 2
    /\ file.items[1] = saves[1]
    /\ ~file.items[1].success
    /\ exitCode = 0

\* C18 as stated: a run with --history makes no AI call, spawns no process
\* and leaves the history store as it found it, in gen, fix and review and
\* whatever the user answers.
C18_HistoryRunReadOnly ==
    flagHistory =>
        /\ aiCalls = 0
        /\ spawned = <<>>
        /\ file = hist.before

\* C18 amended: a run with --history makes no AI call in gen, fix and
\* review.  In fix and review it is read-only: it spawns and runs nothing,
\* writes no user file and leaves the history store unchanged.  In gen the
\* listing is followed by an offer to run a listed command again: a command
\* is spawned only if it is one of the ten most recent records and the user
\* answered yes to its confirmation, and the history store changes only by
\* records of that execution.
C18_HistoryListing ==
    flagHistory =>
        /\ aiCalls = 0
        /\ retry.pc = "off"
        /\ effects = <<>>
        /\ cmd \in {"fix", "review"} =>
              /\ spawned = <<>>
              /\ saves = <<>>
              /\ file = hist.before
        /\ cmd = "gen" =>
              /\ spawned # <<>> =>
                    /\ confirmAnswer = "yes"
                    /\ Len(spawned) = 1
                    /\ \E i \in 1..Len(Recent(GetHistory(hist.before).items)) :
                          spawned[1] = GetHistory(hist.before).items[i].command
              /\ saves # <<>> => spawned # <<>>
              /\ \A i \in 1..Len(saves) : saves[i].command = spawned[1]
              /\ saves = <<>> => file = hist.before

\* C18 happens: gen --history ran the listed command again and the record
\* of that execution went to the head of history.json
C18_Witness ==
    /\ flagHistory
    /\ cmd = "gen"
    /\ pc = "done"
    /\ Len(hist.before.items) = 1
    /\ spawned = <<hist.before.items[1].command>>
    /\ Len(saves) = 1
    /\ file.kind = "array"
    /\ Len(file.items) = 2
    /\ file.items[1] = saves[1]

\* what a run of fix or review did that executes a program or writes a
\* user file
IsAction(e) == e \in {"run", "backup", "overwrite"}

\* C19 as stated: in every command, each action that executes a program or
\* writes a user file (spawning a generated command, running the target file
\* in fix --auto, overwriting the target file, writing the .backup file in
\* review) happens only after the user answered yes to a confirmation prompt
\* of that run.
C19_EveryActionAfterYes ==
    /\ (spawned # <<>> \/ children # {}) => confirmAnswer = "yes"
    /\ \A i \in 1..Len(effects) :
          IsAction(effects[i]) => \E j \in 1..(i - 1) : effects[j] = "yes"

\* C19 amended: in every command, spawning a generated command and
\* overwriting the target file happen only after the user answered yes to a
\* confirmation prompt of that run, and so does the second run of the target
\* file in fix --auto, which follows the overwrite.  The first run of the
\* target file in fix --auto and the writing of the .backup file in review
\* happen before any prompt is answered.
C19_SpawnAndOverwriteAfterYes ==
    /\ (spawned # <<>> \/ children # {}) => confirmAnswer = "yes"
    /\ userFile = "fixed" => \E i \in 1..Len(effects) : effects[i] = "overwrite"
    /\ \A i \in 1..Len(effects) :
          /\ effects[i] = "overwrite" => (i > 1 /\ effects[i - 1] = "yes")
          /\ effects[i] = "run" =>
                \/ i = 1 /\ cmd = "fix" /\ flagAuto
                \/ i > 1 /\ effects[i - 1] = "overwrite"
          /\ effects[i] = "backup" => (i = 1 /\ cmd = "review")

\* C19 happens: fix --auto ran the file, asked, overwrote it after yes and ran
\* it again
C19_Witness ==
    /\ cmd = "fix"
    /\ flagAuto
    /\ pc = "done"
    /\ effects = <<"run", "error", "yes", "overwrite", "run", "clean">>
    /\ userFile = "fixed"

\* C20: whenever fix or review overwrites the user's file with the AI's
\* code, a backup file <path>.backup holding the original content has been
\* written earlier in the same run.
C20_BackupBeforeOverwrite ==
    /\ \A i \in 1..Len(effects) :
          effects[i] = "overwrite" => \E j \in 1..(i - 1) : effects[j] = "backup"
    /\ userFile = "fixed" => backup = "original"

\* both invocations have left saveToHistory
BothDone == \A p \in Procs : procs[p].pc = "done"

\* the two records the invocations append
NewRecords == {procs[p].record : p \in Procs}

\* the stored log: what the next getHistory returns
StoredLog == StoreGet(store, file)

InputMissing ==
    /\ ~flagHistory
    /\ \/ cmd = "gen" /\ userPrompt = ""
       \/ cmd \in {"fix", "review"} /\ argv = "none"

\* nothing has been done yet that reaches outside the run: no AI call, no
\* child process, no program run, no user file written, no record handed to
\* saveToHistory, the history file as found
NothingDone ==
    /\ aiCalls = 0
    /\ retry.pc = "off"
    /\ spawned = <<>>
    /\ children = {}
    /\ effects = <<>>
    /\ userFile # "fixed"
    /\ backup \in {"absent", "stale"}
    /\ saves = <<>>
    /\ file = hist.before

\* C22: when required input is missing (gen with an empty prompt after the
\* interactive fallback, fix with no error string, fix --auto or review with
\* no file path), the command has made no AI call, written no user file and
\* no history record, and it ends with a non-zero exit.
C22_MissingInputExits ==
    InputMissing =>
        /\ NothingDone
        /\ pc \in {"start", "askPrompt", "fixStart", "reviewStart", "done"}
        /\ pc = "done" => exitCode # 0

\* C22 happens: gen with an API key, no prompt in argv and an empty answer
\* to the prompt question has ended
C22_Witness ==
    /\ cmd = "gen"
    /\ apiKey
    /\ ~flagHistory
    /\ userPrompt = ""
    /\ pc = "done"
    /\ exitCode = 1

\* C23: when GEMINI_API_KEY is not set, fix, review and gen without
\* --history end with an error exit before any AI call, any child process,
\* any write to the user's file and any history write, whatever the
\* arguments and flags.
C23_MissingKeyExits ==
    (~apiKey /\ (cmd \in {"fix", "review"} \/ (cmd = "gen" /\ ~flagHistory))) =>
        /\ NothingDone
        /\ pc \in {"start", "fixStart", "reviewStart", "done"}
        /\ pc = "done" => exitCode = 1

\* C23 happens: review --history on a file, without the key, has ended
C23_Witness ==
    /\ ~apiKey
    /\ cmd = "review"
    /\ flagHistory
    /\ argv = "file"
    /\ userFile = "original"
    /\ pc = "done"
    /\ exitCode = 1

\* C24: for every maxRetries (0 included) and every behaviour of the
\* operation, retryWithBackoff raises only after having invoked the
\* operation at least once, and what it raises is the failure raised by the
\* last invocation.
C24_RaisesOnlyAnObservedFailure ==
    retry.pc = "raised" =>
        /\ Len(Calls) >= 1
        /\ Len(Rejects) >= 1
        /\ retry.raised = Rejects[Len(Rejects)].what
        /\ retry.raised \in RetryErrors \cup AiErrors

\* C25: parseAIResponse never puts an empty string into commands: a
\* 'COMMAND:' or 'STEP' line with no command text after its colon, or a
\* 'STEP' line with no colon at all, contributes no command.
C25_NoEmptyCommand ==
    parsed.applied =>
        \A i \in 1..Len(parsed.commands) : Len(parsed.commands[i]) > 0

\* no line of the response begins with a marker that yields a command
NoCommandMarker ==
    \A i \in 1..Len(ResponseLines) :
        ~BeginsCommand(ResponseLines[i]) /\ ~BeginsStep(ResponseLines[i])

\* C26: when the AI response holds no recognizable marker, parseAIResponse
\* returns an empty commands list and gen treats the empty plan as nothing
\* to execute: no process is spawned, no history record is written and the
\* run does not end with a non-zero exit, whatever the user answers.
C26_EmptyPlanRunsNothing ==
    (parsed.applied /\ NoCommandMarker) =>
        /\ parsed.commands = <<>>
        /\ cmd = "gen" =>
              /\ commands = <<>>
              /\ spawned = <<>>
              /\ children = {}
              /\ saves = <<>>
              /\ file = hist.before
              /\ pc \in {"confirmMulti", "done"}
              /\ pc = "done" => exitCode = 0

\* C26 happens: the user answered yes to running the steps of an empty plan
\* and the run has ended
C26_Witness ==
    /\ cmd = "gen"
    /\ parsed.applied
    /\ NoCommandMarker
    /\ Len(responseText) > 0
    /\ confirmAnswer = "yes"
    /\ pc = "done"
    /\ exitCode = 0

\* what executeCommand reported for the attempt that just ended
Reported == results[Len(results)]

\* the records saved for the attempt that just ended
AttemptRecords == SubSeq(saves, Len(saves) - attemptSaves + 1, Len(saves))

FixRunEnded == cmd = "fix" /\ retry.pc # "off" /\ pc = "done"

\* the user declined the proposed fix
Declined == \E i \in 1..Len(effects) : effects[i] = "no"

\* the proposed fix was written to the file
Applied == \E i \in 1..Len(effects) : effects[i] = "overwrite"

\* C28: every fix run (manual or --auto) that reaches the AI call hands
\* exactly one record to saveToHistory, on every path; when the user declines
\* the proposed fix the file is unchanged and the record has success = false;
\* in --auto mode the record of an applied fix has success = true only when
\* the detection run after the write found no error.
C28_ExactlyOneFixRecord ==
    FixRunEnded =>
        /\ Len(saves) = 1
        /\ Declined => (userFile = "original" /\ ~saves[1].success)
        /\ (flagAuto /\ Applied /\ saves[1].success) =>
              effects[Len(effects)] = "clean"

\* C29: when the read step of saveToHistory fails (the file is unreadable or
\* holds invalid JSON) and its write step succeeds, the stored log afterwards
\* is exactly the one new record: whatever the file held is discarded.
C29_ReadFailureDropsHistory ==
    (hist.op = "save" /\ hist.before.kind \in {"unreadable", "invalid"} /\ hist.wrote) =>
        /\ ~hist.raised
        /\ file.kind = "array"
        /\ file.items = <<hist.record>>

\* C29 happens: a review record saved over a file that could not be parsed
C29_Witness ==
    /\ store = "review"
    /\ hist.op = "save"
    /\ hist.before.kind = "invalid"
    /\ hist.wrote
    /\ file = ArrayFile(<<hist.record>>)

\* a confirmed plan has ended after a command of it failed
EndedAfterFailure ==
    /\ cmd = "gen"
    /\ pc = "done"
    /\ confirmAnswer = "yes"
    /\ \E i \in 1..Len(results) : ~results[i]

====
